---- MODULE Spec2Model ----
(***************************************************************************)
(* A model of the Token placeable object                                   *)
(* (src/resources/app/client/pixi/placeables/token.js): its position       *)
(* tracker, collision test, light/vision source registry, animation       *)
(* engine and targeting.                                                   *)
(*                                                                         *)
(* The module holds several specifications over one set of variables.      *)
(* Each specification drives one group of variables and leaves the other   *)
(* groups at their initial value:                                          *)
(*   SpecPure    the pure computations, applied to enumerated inputs       *)
(*   SpecTarget  setTarget over several tokens and users                   *)
(*   SpecLight   one token: creation, hide/unhide, light changes, deletion *)
(*   SpecMove    one token: position updates, animated or not              *)
(*   SpecCollide one token: position updates and collision tests           *)
(*   SpecAnim    one token: overlapping animations of position and alpha   *)
(***************************************************************************)
EXTENDS Integers, Sequences, FiniteSets, TLC

VARIABLES
  call,       \* the last API call made for its result, with its inputs and result
  targeted,   \* Token.targeted: token -> set of users targeting it
  targets,    \* User.targets: user -> the tokens the user targets, in insertion order
  refreshed,  \* tokens whose refresh() ran during the last setTarget call
  broadcasts, \* payloads of user.broadcastActivity during the last setTarget call
  tcall,      \* the last top-level setTarget call: its receiver and arguments
  status,     \* "new" (constructed), "active" (drawn), "deleted"
  source,     \* TokenDocument._source: the persisted document data
  doc,        \* the TokenDocument's in-memory fields, which animation frames overwrite
  animationAttributes, \* Token.#animationAttributes
  position,   \* Token.position (PIXI): where the token is displayed
  validPosition,  \* Token.#validPosition
  priorMovement,  \* Token.#priorMovement (ox, oy)
  adjustedCenter, \* Token.#adjustedCenter
  _animation, \* Token._animation: Null or the name under which the promise it holds was dispatched
  animations, \* CanvasAnimation.animations: name -> the animation ticking under it
  microtasks, \* continuations of Token.animate whose awaited promise has resolved
  lightSources,   \* canvas.effects.lightSources: the keys present
  visionSources,  \* canvas.effects.visionSources: the keys present
  controlled, \* Token.controlled
  env,        \* the scene and viewer: walls, darkness level, user, settings
  perception, \* the canvas.perception.update requests of the last step, in order
  last,       \* the last token operation and what it found (history)
  hist        \* history: updates -- the number of updates handled; docSign -- the
              \* signs of the last non-zero deltas between consecutive document
              \* positions, at first the facing's; target -- what the animate()
              \* call of the last update aimed at, if it found an animation in
              \* flight; stale -- such a call left that animation running;
              \* staleTerminal -- an animation left running so has completed
              \* with a value that is not the target's

pureVars   == <<call>>
targetVars == <<targeted, targets, refreshed, broadcasts, tcall>>
tokenVars  == <<status, source, doc, animationAttributes, position, validPosition,
                priorMovement, adjustedCenter, _animation, animations, microtasks,
                lightSources, visionSources, controlled, env, perception, last, hist>>
vars       == <<call, targeted, targets, refreshed, broadcasts, tcall,
                status, source, doc, animationAttributes, position, validPosition,
                priorMovement, adjustedCenter, _animation, animations, microtasks,
                lightSources, visionSources, controlled, env, perception, last, hist>>

(***************************************************************************)
(* Arithmetic helpers (Math.abs, Math.sign, Math.min, Math.max).           *)
(***************************************************************************)
Abs(n) == IF n < 0 THEN -n ELSE n

Sign(n) == IF n > 0 THEN 1 ELSE IF n < 0 THEN -1 ELSE 0

Min(a, b) == IF a <= b THEN a ELSE b

Max(a, b) == IF a >= b THEN a ELSE b

(***************************************************************************)
(* Bounds of the enumerated inputs.                                        *)
(***************************************************************************)
MaxUnits == 2

NumTokens == 3

NumUsers == 2

\* canvas.dimensions.size: the pixel size of one grid space.
GridSizes == {50, 100}

\* canvas.dimensions.distance: the number of distance units of one grid space.
GridDistances == {1, 5}

\* Token.w for a token one or two grid spaces wide.
TokenWidths(size) == {size, 2 * size}

\* Degrees in [0,360) as getDisplayAttributes returns them (normalizeDegrees).
Rotations == {0, 10, 45, 90, 135, 170, 180, 190, 225, 270, 315, 350}

(***************************************************************************)
(* Token.getLightRadius.  units is a whole number of grid spaces times     *)
(* distance and w is even, so both divisions are exact.                    *)
(***************************************************************************)
getLightRadiusUnsigned(units, w, size, distance) ==
  IF units = 0 THEN 0
  ELSE ((Abs(units) \div distance) * size) + (w \div 2)

getLightRadius(units, w, size, distance) ==
  IF units = 0 THEN 0
  ELSE (((Abs(units) \div distance) * size) + (w \div 2)) * Sign(units)

(***************************************************************************)
(* Token.animate, "Special handling for rotation": the rotation animation  *)
(* attribute for a baseline rotation a0 and a target rotation a1, or NoAttr *)
(* when the two are equal.                                                 *)
(***************************************************************************)
NoAttr == [none |-> TRUE]

rotationAttributeUnwrapped(a0rot, a1rot) ==
  IF a1rot - a0rot # 0 THEN [from |-> a0rot, to |-> a1rot] ELSE NoAttr

rotationAttribute(a0rot, a1rot) ==
  LET dr == a1rot - a0rot
      r1 == IF dr > 180 THEN a1rot - 360 ELSE a1rot
      r  == IF dr < -180 THEN r1 + 360 ELSE r1
  IN  IF dr # 0 THEN [from |-> a0rot, to |-> r] ELSE NoAttr

(***************************************************************************)
(* SpecPure: each action applies one pure computation to inputs drawn from *)
(* the bounded sets and records the call.                                  *)
(***************************************************************************)
IdlePure == call = [fn |-> "none"]

CallGetLightRadius ==
  /\ IdlePure
  /\ \E size \in GridSizes, distance \in GridDistances, k \in (-MaxUnits)..MaxUnits :
       \E w \in TokenWidths(size) :
         call' = [fn |-> "getLightRadius", units |-> k * distance, w |-> w,
                  size |-> size, distance |-> distance,
                  result |-> getLightRadius(k * distance, w, size, distance),
                  negated |-> getLightRadius(-(k * distance), w, size, distance)]

CallRotationAttribute ==
  /\ IdlePure
  /\ \E a0rot \in Rotations, a1rot \in Rotations :
       call' = [fn |-> "rotation", a0 |-> a0rot, a1 |-> a1rot,
                result |-> rotationAttribute(a0rot, a1rot)]

(***************************************************************************)
(* Targeting.                                                              *)
(***************************************************************************)
Tokens == 1..NumTokens

Users == 1..NumUsers

IdleTarget ==
  /\ targeted = [t \in Tokens |-> {}]
  /\ targets = [u \in Users |-> <<>>]
  /\ refreshed = {}
  /\ broadcasts = <<>>
  /\ tcall = [op |-> "none"]

Range(seq) == {seq[i] : i \in 1..Len(seq)}

\* seq without the elements of S, order kept.
RECURSIVE Without(_, _)
Without(seq, S) ==
  IF seq = <<>> THEN <<>>
  ELSE IF Head(seq) \in S THEN Without(Tail(seq), S)
       ELSE <<Head(seq)>> \o Without(Tail(seq), S)

(***************************************************************************)
(* Token.setTarget(targeted, {user, releaseOthers, groupSelection}) called *)
(* on token self.  User.targets is a Set, kept here in insertion order     *)
(* (the order forEach visits it).                                          *)
(***************************************************************************)

\* "Release other targets": the tokens the forEach releases by a nested
\* setTarget(false, {user, releaseOthers: false, groupSelection}).
releasedOthers(self, u, releaseOthers) ==
  IF Len(targets[u]) > 0 /\ releaseOthers
  THEN Without(targets[u], {self})
  ELSE <<>>

targetedAfterKeepingOthers(self, tg, u, releaseOthers) ==
  [t \in Tokens |->
     IF t = self THEN (IF tg THEN targeted[t] \cup {u} ELSE targeted[t] \ {u})
     ELSE targeted[t]]

\* Token.targeted of every token once the call has returned.
targetedAfter(self, tg, u, releaseOthers) ==
  LET others == Range(releasedOthers(self, u, releaseOthers))
  IN  [t \in Tokens |->
         IF t \in others THEN targeted[t] \ {u}
         ELSE IF t = self
              THEN (IF tg THEN targeted[t] \cup {u} ELSE targeted[t] \ {u})
              ELSE targeted[t]]

targetsAfterWithoutClear(self, tg, u, releaseOthers) ==
  IF tg
  THEN (IF self \in Range(targets[u]) THEN targets[u] ELSE Append(targets[u], self))
  ELSE Without(targets[u], {self})

\* user.targets once the call has returned.
targetsAfter(self, tg, u, releaseOthers) ==
  LET cleared == IF Len(targets[u]) > 0 /\ releaseOthers THEN <<>> ELSE targets[u]
  IN  IF tg
      THEN (IF self \in Range(cleared) THEN cleared ELSE Append(cleared, self))
      ELSE Without(cleared, {self})

\* The payloads of the nested releases were they called without groupSelection.
nestedBroadcastsUngrouped(self, u, releaseOthers, groupSelection) ==
  LET others == releasedOthers(self, u, releaseOthers)
  IN  [i \in 1..Len(others) |->
         Without(targets[u], {others[j] : j \in 1..i})]

\* The payloads broadcast by the nested releases, in order: the i-th nested
\* release broadcasts user.targets.ids as it stands once i tokens are released.
nestedBroadcasts(self, u, releaseOthers, groupSelection) ==
  LET others == releasedOthers(self, u, releaseOthers)
  IN  IF groupSelection THEN <<>>
      ELSE [i \in 1..Len(others) |->
              Without(targets[u], {others[j] : j \in 1..i})]

setTarget(self, tg, u, releaseOthers, groupSelection) ==
  LET others == releasedOthers(self, u, releaseOthers)
      after  == targetsAfter(self, tg, u, releaseOthers)
  IN  /\ targeted' = targetedAfter(self, tg, u, releaseOthers)
      /\ targets' = [targets EXCEPT ![u] = after]
      /\ refreshed' = Range(others) \cup {self}
      /\ broadcasts' = nestedBroadcasts(self, u, releaseOthers, groupSelection)
                         \o (IF groupSelection THEN <<>> ELSE <<after>>)
      /\ tcall' = [op |-> "setTarget", token |-> self, targeted |-> tg,
                   user |-> u, releaseOthers |-> releaseOthers,
                   groupSelection |-> groupSelection,
                   before |-> Range(targets[u])]

SetTargetCall ==
  \E self \in Tokens, u \in Users, tg \in BOOLEAN,
     releaseOthers \in BOOLEAN, groupSelection \in BOOLEAN :
    setTarget(self, tg, u, releaseOthers, groupSelection)

\* game.user: the user of the client that handles the deletion.
GameUser == 1

\* Token._onDelete of token self, "Remove target (if applicable)": what it
\* does to the targets; a deleted token takes no further call.
OnDeleteTargeted(self) ==
  /\ tcall.op # "delete"
  /\ targets' = [targets EXCEPT ![GameUser] = Without(@, {self})]
  /\ tcall' = [op |-> "delete", token |-> self, user |-> GameUser,
               before |-> {u \in Users : self \in Range(targets[u])}]
  /\ UNCHANGED <<targeted, refreshed, broadcasts>>

(***************************************************************************)
(* The token: one Token object, its document, and the scene around it.     *)
(*                                                                         *)
(* Positions are whole pixels.  A point handed to getMovementAdjustedPoint *)
(* may be fractional (a centre is x + w/2), so such a point is counted in  *)
(* half pixels; the point it returns is in whole pixels again.  Alpha is   *)
(* counted in tenths.  #priorMovement also holds dx and dy, which the code *)
(* writes and never reads: only ox and oy are kept here.                   *)
(***************************************************************************)
MaxCoord == 2

AnimSteps == 2

\* The number of document updates a behaviour takes.
MaxUpdates == 3

SceneGridSize == 2

AlphaFull == 10

AlphaHidden == 5

Null == "null"

Undefined == "undefined"

\* Token.sourceId of the token (it is no preview).
Self == "Token.1"

Coords == 0..MaxCoord

White == <<2, 2, 2>>

NoRun == [none |-> TRUE]

NoSnapshot == [undefined |-> TRUE]

LightNone == [dim |-> 0, bright |-> 0, angle |-> 360, min |-> 0, max |-> 10]

LightTorch == [dim |-> 2, bright |-> 1, angle |-> 360, min |-> 0, max |-> 10]

LightNight == [dim |-> 0, bright |-> 1, angle |-> 90, min |-> 5, max |-> 10]

LightConfigs == {LightNone, LightTorch, LightNight}

SightOff == [enabled |-> FALSE, angle |-> 360]

SightOn == [enabled |-> TRUE, angle |-> 360]

\* Token.w and Token.h: the grid's rectangle for the document's width and height.
TokenW(d) == d.width * SceneGridSize

TokenH(d) == d.height * SceneGridSize

\* Token.getCenter, in half pixels: 2 * (x + w/2).
getCenter(x, y, d) == [x |-> (2 * x) + TokenW(d), y |-> (2 * y) + TokenH(d)]

\* Token.center
center(d) == getCenter(d.x, d.y, d)

\* Math.roundFast of a non-negative coordinate given in half pixels.
roundFast(v) == (v + 1) \div 2

getMovementAdjustedPointUnshifted(point, offsetX, offsetY, prior, walls) ==
  [x |-> roundFast(point.x), y |-> roundFast(point.y)]

(***************************************************************************)
(* Token.getMovementAdjustedPoint(point, {offsetX, offsetY}).  walls is    *)
(* the set of pixel points some wall passes exactly through (the quadtree  *)
(* lookup with orient2dFast = 0); prior is #priorMovement.  An offset is   *)
(* {} when undefined and {v} when given as v.                              *)
(***************************************************************************)
getMovementAdjustedPoint(point, offsetX, offsetY, prior, walls) ==
  LET x == roundFast(point.x)
      y == roundFast(point.y)
  IN  IF <<x, y>> \in walls
      THEN [x |-> x - (IF offsetX = {} THEN prior.ox ELSE CHOOSE v \in offsetX : TRUE),
            y |-> y - (IF offsetY = {} THEN prior.oy ELSE CHOOSE v \in offsetY : TRUE)]
      ELSE [x |-> x, y |-> y]

\* Token.hasSight
hasSight(d) == d.sight.enabled

\* Token.emitsLight
emitsLight(d, e) ==
  IF d.hidden THEN FALSE
  ELSE IF ~(d.light.dim # 0 \/ d.light.bright # 0) THEN FALSE
  ELSE /\ Min(d.light.min, d.light.max) <= e.darkness
       /\ e.darkness <= Max(d.light.min, d.light.max)

\* Token.hasLimitedSourceAngle
hasLimitedSourceAngle(d, e) ==
  \/ hasSight(d) /\ d.sight.angle # 360
  \/ emitsLight(d, e) /\ d.light.angle # 360

\* Token.observer
observer(e) == e.isGM \/ e.canObserve

\* Token._isVisionSource with the test of a GM viewer ahead of the test of
\* the controlled token.
isVisionSourceGMFirst(d, ctl, e) ==
  IF ~e.tokenVision \/ ~hasSight(d) THEN FALSE
  ELSE IF d.hidden /\ ~e.isGM THEN FALSE
  ELSE IF e.isGM THEN FALSE
  ELSE IF ctl THEN TRUE
  ELSE IF ~e.canObserve THEN FALSE
  ELSE ~e.othersControlled

\* Token._isVisionSource without the test of the other controlled tokens.
isVisionSourceWithOthers(d, ctl, e) ==
  IF ~e.tokenVision \/ ~hasSight(d) THEN FALSE
  ELSE IF d.hidden /\ ~e.isGM THEN FALSE
  ELSE IF ctl THEN TRUE
  ELSE IF e.isGM THEN FALSE
  ELSE e.canObserve

\* Token._isVisionSource.  e.othersControlled: the layer holds another
\* controlled token that is not hidden and has sight.
isVisionSource(d, ctl, e) ==
  IF ~e.tokenVision \/ ~hasSight(d) THEN FALSE
  ELSE IF d.hidden /\ ~e.isGM THEN FALSE
  ELSE IF ctl THEN TRUE
  ELSE IF e.isGM THEN FALSE
  ELSE IF ~e.canObserve THEN FALSE
  ELSE ~e.othersControlled

\* What the viewer's client holds of a token of the layer.
TokenViews ==
  [sight : BOOLEAN, hidden : BOOLEAN, controlled : BOOLEAN, canObserve : BOOLEAN]

\* this.layer.controlled.filter(t => !t.document.hidden && t.hasSight), seen
\* from token t which is not one of them.
othersControlled(views, t) ==
  \E u \in DOMAIN views \ {t} :
    views[u].controlled /\ ~views[u].hidden /\ views[u].sight

\* The vision index after updateVisionSource() ran on every token of the layer:
\* each call sets or deletes the token's own key.
visionSourcesOfLayer(views, isGM) ==
  {t \in DOMAIN views :
     isVisionSource([hidden |-> views[t].hidden,
                     sight |-> IF views[t].sight THEN SightOn ELSE SightOff],
                    views[t].controlled,
                    [tokenVision |-> TRUE, isGM |-> isGM,
                     canObserve |-> views[t].canObserve,
                     othersControlled |-> othersControlled(views, t)])}

CallUpdateVisionSources ==
  /\ IdlePure
  /\ \E views \in [Tokens -> TokenViews], isGM \in BOOLEAN :
       call' = [fn |-> "updateVisionSources", views |-> views, isGM |-> isGM,
                index |-> visionSourcesOfLayer(views, isGM)]

\* The key of the preview clone of the token, and the key of another token.
PreviewId == "Token.1.preview"

OtherId == "Token.2"

\* Token.sourceId without the suffix of a preview.
sourceIdWithoutSuffix(isPreview) == Self

\* Token.sourceId
sourceId(isPreview) == IF isPreview THEN PreviewId ELSE Self

\* The set and delete of updateLightSource and updateVisionSource on the
\* index S for the key id of a source that is active or not.
sourcesAfter(id, S, active, deleted) ==
  IF active /\ ~deleted THEN S \cup {id} ELSE S \ {id}

\* Token.updateLightSource without the test of options.deleted.
lightSourcesKept(L, d, e, deleted) ==
  IF emitsLight(d, e) THEN L \cup {Self} ELSE L \ {Self}

\* Token.updateLightSource: the light index once it has returned.
lightSourcesAfter(L, d, e, deleted) ==
  IF emitsLight(d, e) /\ ~deleted THEN L \cup {Self} ELSE L \ {Self}

\* Token.updateLightSource: its perception requests without the test of defer.
lightPerceptionUndeferred(d, e, defer, deleted) ==
  IF emitsLight(d, e) \/ deleted
  THEN <<{"refreshLighting", "refreshVision"}>>
  ELSE <<>>

\* Token.updateLightSource: its perception requests.
lightPerception(d, e, defer, deleted) ==
  IF ~defer /\ (emitsLight(d, e) \/ deleted)
  THEN <<{"refreshLighting", "refreshVision"}>>
  ELSE <<>>

\* Token.updateVisionSource: the vision index once it has returned.
visionSourcesAfter(V, d, ctl, e, deleted) ==
  IF isVisionSource(d, ctl, e) /\ ~deleted THEN V \cup {Self} ELSE V \ {Self}

\* Token.updateVisionSource: its perception requests.
visionPerception(d, ctl, e, defer, deleted) ==
  IF ~defer /\ (isVisionSource(d, ctl, e) \/ deleted)
  THEN <<{"refreshVision", "refreshLighting"}>>
  ELSE <<>>

(***************************************************************************)
(* Token.updateSource({defer, deleted}) for document d, movement prior,    *)
(* controlled state ctl and indices L and V: what it leaves behind.        *)
(***************************************************************************)
updateSource(d, prior, ctl, L, V, e, defer, deleted) ==
  [adjustedCenter |->
     getMovementAdjustedPoint(center(d), {}, {}, prior, e.walls),
   lightSources |-> lightSourcesAfter(L, d, e, deleted),
   visionSources |-> visionSourcesAfter(V, d, ctl, e, deleted),
   perception |-> lightPerception(d, e, defer, deleted)
                    \o visionPerception(d, ctl, e, defer, deleted)]

(***************************************************************************)
(* Animation.                                                              *)
(***************************************************************************)
\* The default animation name, Token.animationName.
AnimationName == "Token.1.animate"

NumericKeys == {"x", "y", "alpha", "width", "height"}

ScaleKeys == {"scaleX", "scaleY"}

\* The keys of a frame that the TokenDocument schema knows.
SchemaKeys == {"x", "y", "alpha", "width", "height", "rotation",
               "scaleX", "scaleY", "tint"}

EmptyFrame == [p \in {} |-> 0]

EmptyData == [k \in {} |-> 0]

\* Token.getDisplayAttributes (texture.scaleX, texture.scaleY and texture.tint
\* are kept beside the other attributes).
getDisplayAttributes(d) ==
  [x |-> d.x, y |-> d.y, width |-> d.width, height |-> d.height,
   alpha |-> d.alpha,
   rotation |-> IF d.lockRotation THEN 0 ELSE d.rotation % 360,
   scaleX |-> d.scaleX, scaleY |-> d.scaleY, tint |-> d.tint]

\* Token.animate building its attributes without the step for updateData.hidden.
animateAttributesIgnoringHidden(data, a0, a1) ==
  LET plain == {k \in NumericKeys \cup ScaleKeys : a1[k] # a0[k]}
  IN  [k \in plain |-> [path |-> k, from |-> a0[k], to |-> a1[k]]]

\* Token.animate taking .5 as the bound of the alpha of a token that becomes
\* visible as well.
animateAttributesAlwaysDimmed(data, a0, a1) ==
  LET plain == {k \in NumericKeys \cup ScaleKeys : a1[k] # a0[k]}
      hid   == "hidden" \in DOMAIN data
      names == plain \cup (IF hid THEN {"alpha"} ELSE {})
  IN  [k \in names |->
         IF k = "alpha" /\ hid
         THEN [path |-> "alpha", from |-> a0.alpha, to |-> Min(a1.alpha, AlphaHidden)]
         ELSE [path |-> k, from |-> a0[k], to |-> a1[k]]]

(***************************************************************************)
(* Token.animate, up to "Configure animation": the attributes object.      *)
(* Each attribute holds the key of the frame it is written to (path: the   *)
(* tint channels are written to texture.r, texture.g and texture.b), from  *)
(* and to.                                                                 *)
(***************************************************************************)
animateAttributes(data, a0, a1) ==
  LET plain  == {k \in NumericKeys \cup ScaleKeys : a1[k] # a0[k]}
      rot    == rotationAttribute(a0.rotation, a1.rotation)
      hid    == "hidden" \in DOMAIN data
      names  == plain
                  \cup (IF rot # NoAttr THEN {"rotation"} ELSE {})
                  \cup (IF hid THEN {"alpha"} ELSE {})
                  \cup (IF a1.tint # a0.tint THEN {"tintR", "tintG", "tintB"} ELSE {})
  IN  [k \in names |->
         IF k = "rotation" THEN [path |-> "rotation", from |-> rot.from, to |-> rot.to]
         ELSE IF k = "alpha" /\ hid
           THEN [path |-> "alpha", from |-> a0.alpha,
                 to |-> Min(a1.alpha, IF data.hidden THEN AlphaHidden ELSE AlphaFull)]
         ELSE IF k = "tintR" THEN [path |-> "r", from |-> a0.tint[1], to |-> a1.tint[1]]
         ELSE IF k = "tintG" THEN [path |-> "g", from |-> a0.tint[2], to |-> a1.tint[2]]
         ELSE IF k = "tintB" THEN [path |-> "b", from |-> a0.tint[3], to |-> a1.tint[3]]
         ELSE [path |-> k, from |-> a0[k], to |-> a1[k]]]

\* Token.animate, "Configure animation": the config object.
animateConfigOfAnyToken(data, d, ctl, V, e) ==
  IF e.visionAnimation /\ ({"x", "y", "rotation"} \cap DOMAIN data # {})
  THEN [animatePerception |-> TRUE, sound |-> observer(e),
        forceUpdateFog |-> emitsLight(d, e) /\ ~ctl]
  ELSE [animatePerception |-> FALSE, sound |-> FALSE, forceUpdateFog |-> FALSE]

animateConfig(data, d, ctl, V, e) ==
  IF e.visionAnimation /\ ({"x", "y", "rotation"} \cap DOMAIN data # {})
  THEN [animatePerception |-> isVisionSource(d, ctl, e) \/ emitsLight(d, e),
        sound |-> observer(e),
        forceUpdateFog |-> emitsLight(d, e) /\ ~ctl /\ V # {}]
  ELSE [animatePerception |-> FALSE, sound |-> FALSE, forceUpdateFog |-> FALSE]

(***************************************************************************)
(* CanvasAnimation, which is not part of the sources: an animation ticks   *)
(* AnimSteps times, each tick writing every attribute's interpolated value *)
(* to the frame, the last one the exact target; starting an animation      *)
(* under a name supersedes the one registered under that name, whose       *)
(* promise then resolves.                                                  *)
(***************************************************************************)
Interp(from, to, step) ==
  from + (Sign(to - from) * ((Abs(to - from) * step) \div AnimSteps))

tickFrame(attrs, step) ==
  [p \in {attrs[k].path : k \in DOMAIN attrs} |->
     LET k == CHOOSE j \in DOMAIN attrs : attrs[j].path = p
     IN  Interp(attrs[k].from, attrs[k].to, step)]

\* What the attributes of an animation aim at, by the document's keys: the
\* rotation within [0,360), the tint as the triple of its channels.
animationTargets(attrs) ==
  [k \in (DOMAIN attrs \ {"tintR", "tintG", "tintB"})
          \cup (IF "tintR" \in DOMAIN attrs THEN {"tint"} ELSE {}) |->
     IF k = "tint" THEN <<attrs["tintR"].to, attrs["tintG"].to, attrs["tintB"].to>>
     ELSE IF k = "rotation" THEN attrs[k].to % 360
     ELSE attrs[k].to]

\* The continuation of the Token.animate call that awaits run.
continuationOf(run, completed) ==
  [frame |-> run.frame, config |-> run.config, completed |-> completed,
   attrs |-> run.attrs]

\* CanvasAnimation.animate(attributes, {name}): the registry and the promises
\* resolved by it.
canvasAnimate(anims, micro, n, run) ==
  [animations |-> [anims EXCEPT ![n] = run],
   microtasks |-> IF anims[n] # NoRun
                  THEN Append(micro, continuationOf(anims[n], FALSE))
                  ELSE micro]

\* CanvasAnimation.terminateAnimation(name)
terminateAnimation(anims, micro, n) ==
  [animations |-> [anims EXCEPT ![n] = NoRun],
   microtasks |-> IF anims[n] # NoRun
                  THEN Append(micro, continuationOf(anims[n], FALSE))
                  ELSE micro]

animateAlwaysDispatching(data, name, a0, d, ctl, V, e, anims, micro, anim) ==
  LET attrs == animateAttributes(data, a0, getDisplayAttributes(d))
      n     == IF name = Undefined THEN AnimationName ELSE name
      ca    == canvasAnimate(anims, micro, n,
                 [attrs |-> attrs, step |-> 0, frame |-> EmptyFrame,
                  config |-> animateConfig(data, d, ctl, V, e)])
  IN  [dispatched |-> TRUE, animations |-> ca.animations,
       microtasks |-> ca.microtasks, anim |-> n]

(***************************************************************************)
(* Token.animate(updateData, {name, a0}) up to its await, for document d:  *)
(* whether it dispatched, the registry, the resolved promises and          *)
(* Token._animation it leaves.                                             *)
(***************************************************************************)
animate(data, name, a0, d, ctl, V, e, anims, micro, anim) ==
  LET attrs == animateAttributes(data, a0, getDisplayAttributes(d))
      n     == IF name = Undefined THEN AnimationName ELSE name
      ca    == canvasAnimate(anims, micro, n,
                 [attrs |-> attrs, step |-> 0, frame |-> EmptyFrame,
                  config |-> animateConfig(data, d, ctl, V, e)])
  IN  IF DOMAIN attrs = {}
      THEN [dispatched |-> FALSE, animations |-> anims, microtasks |-> micro,
            anim |-> anim]
      ELSE [dispatched |-> TRUE, animations |-> ca.animations,
            microtasks |-> ca.microtasks, anim |-> n]

\* Token.#animateFrame, "Recover animation color"
recoverTint(frame) ==
  IF "tintR" \in DOMAIN frame /\ frame["tintR"] # 0
  THEN [p \in DOMAIN frame \cup {"tint"} |->
          IF p = "tint" THEN <<frame["tintR"], frame["tintG"], frame["tintB"]>>
          ELSE frame[p]]
  ELSE frame

\* TokenDocument.cleanData(frame, {partial: true}): the schema's keys, the
\* rotation brought into [0,360).
cleanData(frame) ==
  [p \in DOMAIN frame \cap SchemaKeys |->
     IF p = "rotation" THEN frame[p] % 360 ELSE frame[p]]

\* mergeObject(this.document, frame, {insertKeys: false})
mergeFrame(d, frame) ==
  LET f == cleanData(recoverTint(frame))
  IN  [k \in DOMAIN d |-> IF k \in DOMAIN f THEN f[k] ELSE d[k]]

\* Token.#animateFrame asking refresh() for everything on a change of position.
animateFrameRefreshingAll(frame, config, d, prior, ctl, L, V, ac, pos, e, thrown) ==
  LET d1 == mergeFrame(d, frame)
      f  == cleanData(recoverTint(frame))
      change == {"x", "y", "width", "height"} \cap DOMAIN f # {}
  IN  [doc |-> d1,
       animationAttributes |-> getDisplayAttributes(d1),
       position |-> IF thrown THEN pos ELSE [x |-> d1.x, y |-> d1.y],
       refresh |-> [bars |-> change, border |-> change, effects |-> change,
                    elevation |-> change, nameplate |-> change],
       adjustedCenter |-> ac, lightSources |-> L, visionSources |-> V,
       perception |-> <<>>]

(***************************************************************************)
(* Token.#animateFrame(frame, config): what it leaves behind, given the    *)
(* document d, #priorMovement, controlled, both indices and                *)
(* #adjustedCenter.  thrown: refresh() of a destroyed token threw, so      *)
(* nothing after it ran.                                                   *)
(***************************************************************************)
animateFrame(frame, config, d, prior, ctl, L, V, ac, pos, e, thrown) ==
  LET d1 == mergeFrame(d, frame)
      f  == cleanData(recoverTint(frame))
      changePosition == ("x" \in DOMAIN f) \/ ("y" \in DOMAIN f)
      changeSize     == ("width" \in DOMAIN f) \/ ("height" \in DOMAIN f)
      us == updateSource(d1, prior, ctl, L, V, e, TRUE, FALSE)
      perceive == config.animatePerception /\ ~thrown
  IN  [doc |-> d1,
       animationAttributes |-> getDisplayAttributes(d1),
       position |-> IF thrown THEN pos ELSE [x |-> d1.x, y |-> d1.y],
       refresh |-> [bars |-> changeSize, border |-> changePosition \/ changeSize,
                    effects |-> changeSize, elevation |-> changeSize,
                    nameplate |-> changeSize],
       adjustedCenter |-> IF perceive THEN us.adjustedCenter ELSE ac,
       lightSources |-> IF perceive THEN us.lightSources ELSE L,
       visionSources |-> IF perceive THEN us.visionSources ELSE V,
       perception |->
         IF perceive
         THEN us.perception \o
              <<{"refreshLighting", "refreshVision", "refreshTiles"}
                  \cup (IF config.forceUpdateFog THEN {"forceUpdateFog"} ELSE {})
                  \cup (IF config.sound THEN {"refreshSounds"} ELSE {})>>
         ELSE <<>>]

recordMovementForgetting(origin, destination, vp, prior) ==
  [validPosition |-> [vp EXCEPT !.x = destination.x, !.y = destination.y],
   priorMovement |-> [ox |-> Sign(destination.x - origin.x),
                      oy |-> Sign(destination.y - origin.y)]]

\* Token.#recordMovement(origin, destination)
recordMovement(origin, destination, vp, prior) ==
  LET dx == destination.x - origin.x
      dy == destination.y - origin.y
  IN  [validPosition |-> [vp EXCEPT !.x = destination.x, !.y = destination.y],
       priorMovement |-> [ox |-> IF dx = 0 THEN prior.ox ELSE Sign(dx),
                          oy |-> IF dy = 0 THEN prior.oy ELSE Sign(dy)]]

(***************************************************************************)
(* The token's handlers.                                                   *)
(***************************************************************************)
\* A name given to an animation with options.animation.name.
CustomName == "custom"

Names == {AnimationName, CustomName}

NoTarget == [none |-> TRUE]

NoCall == [none |-> TRUE]

\* Ray.fromAngle(x, y, toRadians(rotation + 90), size) and Math.sign of its
\* dx and dy: the signs #initialize can find for a facing.  For a facing along
\* an axis the other component is a rounding residue that is lost or kept
\* depending on x and y.
facingSigns(rotation) ==
  LET r  == rotation % 360
      xs == IF r = 0 THEN {0, 1} ELSE IF r = 180 THEN {0, -1}
            ELSE IF r < 180 THEN {-1} ELSE {1}
      ys == IF r = 90 THEN {0, 1} ELSE IF r = 270 THEN {0, -1}
            ELSE IF r < 90 \/ r > 270 THEN {1} ELSE {-1}
  IN  {[ox |-> a, oy |-> b] : a \in xs, b \in ys}

DefaultDocument ==
  [x |-> 0, y |-> 0, rotation |-> 0, alpha |-> AlphaFull, width |-> 1, height |-> 1,
   scaleX |-> 1, scaleY |-> 1, tint |-> White, hidden |-> FALSE,
   lockRotation |-> FALSE, light |-> LightNone, sight |-> SightOff]

DefaultEnv ==
  [walls |-> {}, darkness |-> 0, isGM |-> TRUE, tokenVision |-> TRUE,
   visionAnimation |-> TRUE, canObserve |-> TRUE, isOwner |-> TRUE,
   othersControlled |-> FALSE, visionShim |-> FALSE]

\* No call of refresh().
NoRefresh ==
  [bars |-> FALSE, border |-> FALSE, effects |-> FALSE, elevation |-> FALSE,
   nameplate |-> FALSE]

NoOp ==
  [op |-> "none", animate |-> FALSE, moved |-> FALSE, inFlight |-> FALSE,
   nodiff |-> FALSE, dispatched |-> FALSE, thrown |-> FALSE,
   completed |-> FALSE, to |-> EmptyFrame, refresh |-> NoRefresh]

\* What Token.animate(data) reads when it configures the animation: the keys
\* of data, the preference, and the token and the vision index as they are.
dispatchOf(data, d, ctl, V, e) ==
  [keys |-> DOMAIN data, visionAnimation |-> e.visionAnimation,
   visionSource |-> isVisionSource(d, ctl, e), emits |-> emitsLight(d, e),
   controlled |-> ctl, sources |-> V # {}]

\* The constructor (fields and #initialize) for document d, seen by e.
Construct(d, e, signs) ==
  /\ status = "new"
  /\ source = d
  /\ doc = d
  /\ animationAttributes = NoSnapshot
  /\ position = [x |-> 0, y |-> 0]
  /\ validPosition = [x |-> d.x, y |-> d.y, rotation |-> d.rotation]
  /\ priorMovement = signs
  /\ adjustedCenter = getMovementAdjustedPoint(center(d), {}, {}, signs, e.walls)
  /\ _animation = Null
  /\ animations = [n \in Names |-> NoRun]
  /\ microtasks = <<>>
  /\ lightSources = {}
  /\ visionSources = {}
  /\ controlled = FALSE
  /\ env = e
  /\ perception = <<>>
  /\ last = NoOp
  /\ hist = [updates |-> 0, docSign |-> signs, target |-> NoTarget,
             stale |-> FALSE, staleTerminal |-> FALSE, dispatch |-> NoCall]

\* A token that no step touches.
IdleToken == Construct(DefaultDocument, DefaultEnv, [ox |-> 1, oy |-> 1])

Clamped(v, lo, hi) == Min(Max(v, lo), hi)

\* Token._cleanData keeping the position from below only.
cleanPositionFromBelow(d) ==
  [d EXCEPT !.x = Max(d.x, 0), !.y = Max(d.y, 0)]

\* Token._cleanData, on an active scene whose canvas is MaxCoord + SceneGridSize
\* wide and high.
cleanPosition(d) ==
  [d EXCEPT !.x = Clamped(d.x, 0, (MaxCoord + SceneGridSize) - TokenW(d)),
            !.y = Clamped(d.y, 0, (MaxCoord + SceneGridSize) - TokenH(d))]

ControlFlags ==
  {"initializeVision", "forceUpdateFog", "refreshLighting", "refreshSounds",
   "refreshTiles"}

ReleaseFlags ==
  {"initializeVision", "refreshLighting", "refreshSounds", "refreshTiles"}

(***************************************************************************)
(* Token._onCreate: draw() (_draw, then the refresh of the drawn token)    *)
(* and the callback that follows it.                                       *)
(***************************************************************************)
OnCreate ==
  /\ status = "new"
  /\ LET d1 == cleanPosition(doc)
         refreshVision   == d1.sight.enabled /\ observer(env)
         refreshLighting == emitsLight(d1, env)
         us == updateSource(d1, priorMovement, FALSE, lightSources, visionSources,
                            env, TRUE, FALSE)
         sources == refreshVision \/ refreshLighting
         takeControl == ~env.isGM /\ env.isOwner /\ ~d1.hidden
     IN  /\ status' = "active"
         /\ doc' = d1
         /\ animationAttributes' = getDisplayAttributes(d1)
         /\ position' = [x |-> d1.x, y |-> d1.y]
         /\ adjustedCenter' = IF sources THEN us.adjustedCenter ELSE adjustedCenter
         /\ lightSources' = IF sources THEN us.lightSources ELSE lightSources
         /\ visionSources' = IF sources THEN us.visionSources ELSE visionSources
         /\ controlled' = takeControl
         /\ env' = IF takeControl THEN [env EXCEPT !.othersControlled = FALSE] ELSE env
         /\ perception' =
              (IF sources
               THEN us.perception \o
                    <<(IF refreshVision THEN {"refreshVision"} ELSE {})
                        \cup (IF refreshLighting THEN {"refreshLighting"} ELSE {})>>
               ELSE <<>>)
              \o (IF takeControl THEN <<ControlFlags>> ELSE <<>>)
         /\ last' = [NoOp EXCEPT !.op = "create"]
  /\ UNCHANGED <<source, validPosition, priorMovement, _animation, animations,
                 microtasks, hist, call>>

\* The document's fields after an update with the changes of data.
updated(src, data) ==
  [k \in DOMAIN src |-> IF k \in DOMAIN data THEN data[k] ELSE src[k]]

\* What the animate() call of an update aims at.
targetOf(d, data) ==
  [getDisplayAttributes(d) EXCEPT
     !.alpha = IF "hidden" \in DOMAIN data
               THEN Min(@, IF data.hidden THEN AlphaHidden ELSE AlphaFull)
               ELSE @]

(***************************************************************************)
(* Token._onUpdate(data, options) with options.animate = animateOpt and    *)
(* options.animation.name = name, after the document took the changes.     *)
(* It runs _onUpdateAppearance up to the await of animate(), then          *)
(* updatePosition, the change of control of a hidden or revealed token,    *)
(* updateSource and the perception request.                                *)
(***************************************************************************)
HandleUpdate(data, animateOpt, name) ==
  /\ status = "active"
  /\ microtasks = <<>>
  /\ hist.updates < MaxUpdates
  /\ LET src1 == updated(source, data)
         d1   == src1
         p0   == position
         a0   == animationAttributes
         an   == IF animateOpt
                 THEN animate(data, name, a0, d1, controlled, visionSources, env,
                              animations, microtasks, _animation)
                 ELSE [dispatched |-> FALSE, animations |-> animations,
                       microtasks |-> microtasks, anim |-> _animation]
         pos1 == IF animateOpt THEN p0 ELSE [x |-> d1.x, y |-> d1.y]
         positionChange == {"x", "y"} \cap DOMAIN data # {}
         origin == IF an.anim # Null THEN pos1
                   ELSE [x |-> validPosition.x, y |-> validPosition.y]
         moved  == IF positionChange
                   THEN recordMovement(origin, [x |-> d1.x, y |-> d1.y],
                                       validPosition, priorMovement)
                   ELSE [validPosition |-> validPosition,
                         priorMovement |-> priorMovement]
         vp1 == IF "rotation" \in DOMAIN data
                THEN [moved.validPosition EXCEPT !.rotation = d1.rotation]
                ELSE moved.validPosition
         visibilityChange == "hidden" \in DOMAIN data
         release == visibilityChange /\ ~env.isGM /\ controlled /\ data.hidden
         control == /\ visibilityChange /\ ~env.isGM /\ ~release
                    /\ ~data.hidden /\ ~controlled /\ ~env.othersControlled
         ctl1 == IF release THEN FALSE ELSE IF control THEN TRUE ELSE controlled
         rotationChange == "rotation" \in DOMAIN data /\ hasLimitedSourceAngle(d1, env)
         perspectiveChange == visibilityChange \/ positionChange \/ rotationChange
         visionChange == "sight" \in DOMAIN data \/ (hasSight(d1) /\ perspectiveChange)
         lightChange  == "light" \in DOMAIN data \/ (emitsLight(d1, env) /\ perspectiveChange)
         sources == visionChange \/ lightChange
         us == updateSource(d1, moved.priorMovement, ctl1, lightSources,
                            visionSources, env, TRUE, FALSE)
         shapeChange == {"width", "height"} \cap DOMAIN data # {}
         inFlight == animations[AnimationName] # NoRun
         overlap == animateOpt /\ inFlight
     IN  /\ source' = src1
         /\ doc' = d1
         /\ animationAttributes' = getDisplayAttributes(d1)
         /\ position' = pos1
         /\ validPosition' = vp1
         /\ priorMovement' = moved.priorMovement
         /\ _animation' = an.anim
         /\ animations' = an.animations
         /\ microtasks' = an.microtasks
         /\ controlled' = ctl1
         /\ adjustedCenter' = IF sources THEN us.adjustedCenter ELSE adjustedCenter
         /\ lightSources' = IF sources THEN us.lightSources ELSE lightSources
         /\ visionSources' = IF sources THEN us.visionSources ELSE visionSources
         /\ perception' =
              (IF release THEN <<ReleaseFlags>> ELSE <<>>)
              \o (IF control THEN <<ControlFlags>> ELSE <<>>)
              \o (IF sources THEN us.perception ELSE <<>>)
              \o <<(IF sources
                    THEN {"refreshLighting", "refreshVision", "refreshSounds",
                          "refreshTiles"}
                         \cup (IF "sight" \in DOMAIN data THEN {"initializeVision"} ELSE {})
                         \cup (IF hasLimitedSourceAngle(d1, env)
                               THEN {"forceUpdateFog"} ELSE {})
                    ELSE {})
                   \cup (IF shapeChange \/ ({"scaleX", "scaleY"} \cap DOMAIN data # {})
                         THEN {"refreshTiles"} ELSE {})>>
         /\ last' = [op |-> "update", animate |-> animateOpt, moved |-> positionChange,
                     inFlight |-> inFlight,
                     nodiff |-> (a0 = getDisplayAttributes(d1)) /\ ~visibilityChange,
                     dispatched |-> an.dispatched, thrown |-> FALSE,
                     completed |-> FALSE, to |-> EmptyFrame,
                     refresh |-> NoRefresh]
         /\ hist' = [hist EXCEPT
              !.updates = @ + 1,
              !.docSign = IF positionChange
                          THEN [ox |-> IF src1.x # source.x
                                       THEN Sign(src1.x - source.x) ELSE @.ox,
                                oy |-> IF src1.y # source.y
                                       THEN Sign(src1.y - source.y) ELSE @.oy]
                          ELSE @,
              !.target = IF overlap THEN targetOf(d1, data) ELSE NoTarget,
              !.stale = IF an.dispatched THEN FALSE ELSE IF overlap THEN TRUE ELSE @,
              !.dispatch = IF an.dispatched
                           THEN dispatchOf(data, d1, controlled, visionSources, env)
                           ELSE @]
  /\ UNCHANGED <<status, env>>

OnUpdate(data, animateOpt, name) ==
  /\ HandleUpdate(data, animateOpt, name)
  /\ UNCHANGED call

\* Whether refresh() of the token can throw: it can once the token is destroyed.
refreshThrows == IF status = "deleted" THEN BOOLEAN ELSE {FALSE}

\* The token's state after #animateFrame left af behind.
Framed(af) ==
  /\ doc' = af.doc
  /\ animationAttributes' = af.animationAttributes
  /\ position' = af.position
  /\ adjustedCenter' = af.adjustedCenter
  /\ lightSources' = af.lightSources
  /\ visionSources' = af.visionSources
  /\ perception' = af.perception

(***************************************************************************)
(* One tick of the animation registered under n: CanvasAnimation writes    *)
(* the interpolated values to the frame and calls ontick, which is         *)
(* #animateFrame; the last tick resolves the promise.                      *)
(***************************************************************************)
Tick(n) ==
  /\ status # "new"
  /\ microtasks = <<>>
  /\ animations[n] # NoRun
  /\ LET run    == animations[n]
         step1  == run.step + 1
         frame1 == tickFrame(run.attrs, step1)
         run1   == [run EXCEPT !.step = step1, !.frame = frame1]
         done   == step1 = AnimSteps
     IN  /\ \E thrown \in refreshThrows :
              LET af == animateFrame(frame1, run.config, doc, priorMovement, controlled,
                                     lightSources, visionSources, adjustedCenter,
                                     position, env, thrown)
              IN  /\ Framed(af)
                  /\ last' = [NoOp EXCEPT !.op = "tick", !.thrown = thrown,
                                          !.refresh = af.refresh]
         /\ animations' = [animations EXCEPT ![n] = IF done THEN NoRun ELSE run1]
         /\ microtasks' = IF done THEN <<continuationOf(run1, TRUE)>> ELSE <<>>
         /\ hist' = [hist EXCEPT
              !.staleTerminal =
                 @ \/ (/\ done
                       /\ hist.stale
                       /\ hist.target # NoTarget
                       /\ \E k \in DOMAIN cleanData(frame1) :
                            cleanData(frame1)[k] # hist.target[k]),
              !.stale = IF done THEN FALSE ELSE @]
  /\ UNCHANGED <<status, source, validPosition, priorMovement, _animation,
                 controlled, env, call>>

(***************************************************************************)
(* Token.animate after its await: the promise of the oldest resolved       *)
(* animation has settled, so _animation is cleared and a last frame is     *)
(* applied with animatePerception and forceUpdateFog forced.               *)
(***************************************************************************)
Continuation ==
  /\ microtasks # <<>>
  /\ LET m   == Head(microtasks)
         cfg == [m.config EXCEPT !.animatePerception = TRUE, !.forceUpdateFog = TRUE]
     IN  \E thrown \in refreshThrows :
           /\ Framed(animateFrame(m.frame, cfg, doc, priorMovement, controlled,
                                  lightSources, visionSources, adjustedCenter,
                                  position, env, thrown))
           /\ last' = [NoOp EXCEPT !.op = "continuation", !.thrown = thrown,
                                   !.completed = m.completed,
                                   !.to = animationTargets(m.attrs)]
  /\ _animation' = Null
  /\ microtasks' = Tail(microtasks)
  /\ UNCHANGED <<status, source, validPosition, priorMovement, animations,
                 controlled, env, hist, call>>

\* TokenDocument.vision, read by _onDelete: the document has no such field
\* unless the compatibility shim of the data model defines it.
documentVision(d, e) == e.visionShim /\ d.sight.enabled

(***************************************************************************)
(* Token._onDelete: stopAnimation, the sources, then the parent's handler  *)
(* that releases and destroys the token.                                   *)
(***************************************************************************)
OnDelete ==
  /\ status = "active"
  /\ microtasks = <<>>
  /\ LET ta == terminateAnimation(animations, microtasks, AnimationName)
         refreshVision   == documentVision(doc, env) /\ observer(env)
         refreshLighting == emitsLight(doc, env)
         sources == refreshVision \/ refreshLighting
         us == updateSource(doc, priorMovement, controlled, lightSources,
                            visionSources, env, TRUE, TRUE)
     IN  /\ status' = "deleted"
         /\ animations' = ta.animations
         /\ microtasks' = ta.microtasks
         /\ adjustedCenter' = IF sources THEN us.adjustedCenter ELSE adjustedCenter
         /\ lightSources' = IF sources THEN us.lightSources ELSE lightSources
         /\ visionSources' = IF sources THEN us.visionSources ELSE visionSources
         /\ controlled' = FALSE
         /\ perception' =
              (IF sources
               THEN us.perception \o
                    <<(IF refreshVision THEN {"refreshVision"} ELSE {})
                        \cup (IF refreshLighting THEN {"refreshLighting"} ELSE {})>>
               ELSE <<>>)
              \o (IF controlled THEN <<ReleaseFlags>> ELSE <<>>)
         /\ last' = [NoOp EXCEPT !.op = "delete",
                                 !.inFlight = animations[AnimationName] # NoRun]
         /\ hist' = [hist EXCEPT !.target = NoTarget, !.stale = FALSE]
  /\ UNCHANGED <<source, doc, animationAttributes, position, validPosition,
                 priorMovement, _animation, env, call>>

(***************************************************************************)
(* A call token.animate(data) made by other code than _onUpdate, on the    *)
(* document as it is, up to the await.                                     *)
(***************************************************************************)
AnimateCall(data) ==
  /\ status = "active"
  /\ microtasks = <<>>
  /\ LET an == animate(data, Undefined, animationAttributes, doc, controlled,
                       visionSources, env, animations, microtasks, _animation)
     IN  /\ _animation' = an.anim
         /\ animations' = an.animations
         /\ microtasks' = an.microtasks
         /\ last' = [op |-> "animate", animate |-> TRUE, moved |-> FALSE,
                     inFlight |-> animations[AnimationName] # NoRun,
                     nodiff |-> /\ animationAttributes = getDisplayAttributes(doc)
                                /\ "hidden" \notin DOMAIN data,
                     dispatched |-> an.dispatched, thrown |-> FALSE,
                     completed |-> FALSE, to |-> EmptyFrame,
                     refresh |-> NoRefresh]
         /\ hist' = [hist EXCEPT
              !.target = NoTarget,
              !.stale = IF an.dispatched THEN FALSE ELSE @,
              !.dispatch = IF an.dispatched
                           THEN dispatchOf(data, doc, controlled, visionSources, env)
                           ELSE @]
         /\ call' = [fn |-> "animate", data |-> data, a0 |-> animationAttributes,
                     a1 |-> getDisplayAttributes(doc)]
  /\ perception' = <<>>
  /\ UNCHANGED <<status, source, doc, animationAttributes, position, validPosition,
                 priorMovement, adjustedCenter, lightSources, visionSources,
                 controlled, env>>

CollisionTypes == {"move", "sight", "light", "sound"}

CollisionModes == {"any", "closest", "all"}

NoPoint == [undefined |-> TRUE]

checkCollisionTestingSound(destination, origin, type, mode, vp, prior, d, e) ==
  LET c == IF origin = NoPoint THEN getCenter(vp.x, vp.y, d) ELSE origin
      o == getMovementAdjustedPoint(c, {}, {}, prior, e.walls)
  IN  [thrown |-> FALSE,
       oracle |-> [origin |-> o, destination |-> destination, type |-> type,
                   mode |-> mode, source |-> Undefined]]

\* Token.checkCollision taking the deltas from the adjusted origin.
checkCollisionFromAdjustedOrigin(destination, origin, type, mode, vp, prior, d, e) ==
  LET c  == IF origin = NoPoint THEN getCenter(vp.x, vp.y, d) ELSE origin
      o  == getMovementAdjustedPoint(c, {}, {}, prior, e.walls)
      dx == destination.x - (2 * o.x)
      dy == destination.y - (2 * o.y)
      offsetX == IF dx = 0 THEN prior.ox ELSE Sign(dx)
      offsetY == IF dy = 0 THEN prior.oy ELSE Sign(dy)
      dest == getMovementAdjustedPoint(destination, {offsetX}, {offsetY}, prior, e.walls)
  IN  IF type = "sound"
      THEN [thrown |-> TRUE, oracle |-> NoCall]
      ELSE [thrown |-> FALSE,
            oracle |-> [origin |-> o, destination |-> dest, type |-> type,
                        mode |-> mode,
                        source |-> IF type = "move" THEN "MovementSource"
                                   ELSE IF type = "sight" THEN "vision"
                                   ELSE "light"]]

(***************************************************************************)
(* Token.checkCollision(destination, {origin, type, mode}): whether it     *)
(* throws, and the arguments it hands to losBackend.testCollision.         *)
(* Points are in half pixels; origin is NoPoint when not given.            *)
(***************************************************************************)
checkCollision(destination, origin, type, mode, vp, prior, d, e) ==
  LET c  == IF origin = NoPoint THEN getCenter(vp.x, vp.y, d) ELSE origin
      o  == getMovementAdjustedPoint(c, {}, {}, prior, e.walls)
      dx == destination.x - c.x
      dy == destination.y - c.y
      offsetX == IF dx = 0 THEN prior.ox ELSE Sign(dx)
      offsetY == IF dy = 0 THEN prior.oy ELSE Sign(dy)
      dest == getMovementAdjustedPoint(destination, {offsetX}, {offsetY}, prior, e.walls)
  IN  IF type = "sound"
      THEN [thrown |-> TRUE, oracle |-> NoCall]
      ELSE [thrown |-> FALSE,
            oracle |-> [origin |-> o, destination |-> dest, type |-> type,
                        mode |-> mode,
                        source |-> IF type = "move" THEN "MovementSource"
                                   ELSE IF type = "sight" THEN "vision"
                                   ELSE "light"]]

\* Token.checkCollision keeping the adjusted origin as the adjusted centre.
checkCollisionStateCachingOrigin(origin, vp, prior, ac, d, e) ==
  LET c == IF origin = NoPoint THEN getCenter(vp.x, vp.y, d) ELSE origin
  IN  [validPosition |-> vp, priorMovement |-> prior,
       adjustedCenter |-> getMovementAdjustedPoint(c, {}, {}, prior, e.walls)]

\* Token.checkCollision: the private fields of the token once it has returned
\* or thrown; it assigns to none of them.
checkCollisionState(origin, vp, prior, ac, d, e) ==
  [validPosition |-> vp, priorMovement |-> prior, adjustedCenter |-> ac]

\* What losBackend.testCollision can return in a mode.
testCollisionResults(mode) ==
  IF mode = "any" THEN {"true", "false"}
  ELSE IF mode = "closest" THEN {"null", "vertex"}
  ELSE {"[]", "[vertex]"}

Destinations == {[x |-> 2 * a, y |-> 2] : a \in 1..MaxCoord}

\* A call of checkCollision by a caller that catches what it throws.
CheckCollisionCall(destination, origin, type, mode) ==
  /\ status = "active"
  /\ microtasks = <<>>
  /\ LET cc == checkCollision(destination, origin, type, mode, validPosition,
                              priorMovement, doc, env)
     IN  \E r \in (IF cc.thrown THEN {Undefined} ELSE testCollisionResults(mode)) :
           call' = [fn |-> "checkCollision", destination |-> destination,
                    origin |-> origin, type |-> type, mode |-> mode,
                    thrown |-> cc.thrown, oracle |-> cc.oracle,
                    returned |-> ~cc.thrown, result |-> r]
  /\ LET cs == checkCollisionState(origin, validPosition, priorMovement,
                                    adjustedCenter, doc, env)
     IN  /\ validPosition' = cs.validPosition
         /\ priorMovement' = cs.priorMovement
         /\ adjustedCenter' = cs.adjustedCenter
  /\ last' = [NoOp EXCEPT !.op = "checkCollision"]
  /\ perception' = <<>>
  /\ UNCHANGED <<status, source, doc, animationAttributes, position, _animation,
                 animations, microtasks, lightSources, visionSources, controlled,
                 env, hist>>

(***************************************************************************)
(* PlaceableObject.control and Token._onControl; PlaceableObject.release   *)
(* and Token._onRelease.                                                   *)
(***************************************************************************)
Control ==
  /\ status = "active"
  /\ microtasks = <<>>
  /\ ~controlled
  /\ controlled' = TRUE
  /\ perception' = <<ControlFlags>>
  /\ last' = [NoOp EXCEPT !.op = "control"]
  /\ UNCHANGED <<status, source, doc, animationAttributes, position, validPosition,
                 priorMovement, adjustedCenter, _animation, animations, microtasks,
                 lightSources, visionSources, env, hist, call>>

Release ==
  /\ status = "active"
  /\ microtasks = <<>>
  /\ controlled
  /\ controlled' = FALSE
  /\ perception' = <<ReleaseFlags>>
  /\ last' = [NoOp EXCEPT !.op = "release"]
  /\ UNCHANGED <<status, source, doc, animationAttributes, position, validPosition,
                 priorMovement, adjustedCenter, _animation, animations, microtasks,
                 lightSources, visionSources, env, hist, call>>

\* A direct call of Token.updateLightSource({defer, deleted}); afterRemoval
\* tells that the step before was such a call that removed the key.
UpdateLightSourceCall(defer, deleted) ==
  /\ status = "active"
  /\ microtasks = <<>>
  /\ lightSources' = lightSourcesAfter(lightSources, doc, env, deleted)
  /\ perception' = lightPerception(doc, env, defer, deleted)
  /\ call' = [fn |-> "updateLightSource", defer |-> defer, deleted |-> deleted,
              before |-> lightSources,
              afterRemoval |-> /\ last.op = "updateLightSource"
                               /\ call.fn = "updateLightSource"
                               /\ (call.deleted \/ ~emitsLight(doc, env))]
  /\ last' = [NoOp EXCEPT !.op = "updateLightSource"]
  /\ UNCHANGED <<status, source, doc, animationAttributes, position, validPosition,
                 priorMovement, adjustedCenter, _animation, animations, microtasks,
                 visionSources, controlled, env, hist>>

\* A direct call of Token.updateSource({defer, deleted}).
UpdateSourceCall(defer, deleted) ==
  /\ status = "active"
  /\ microtasks = <<>>
  /\ LET us == updateSource(doc, priorMovement, controlled, lightSources,
                            visionSources, env, defer, deleted)
     IN  /\ adjustedCenter' = us.adjustedCenter
         /\ lightSources' = us.lightSources
         /\ visionSources' = us.visionSources
         /\ perception' = us.perception
  /\ call' = [fn |-> "updateSource", defer |-> defer, deleted |-> deleted,
              before |-> [light |-> lightSources, vision |-> visionSources]]
  /\ last' = [NoOp EXCEPT !.op = "updateSource"]
  /\ UNCHANGED <<status, source, doc, animationAttributes, position, validPosition,
                 priorMovement, _animation, animations, microtasks, controlled, env,
                 hist>>

\* A direct call of Token.updateVisionSource({defer, deleted}).
UpdateVisionSourceCall(defer, deleted) ==
  /\ status = "active"
  /\ microtasks = <<>>
  /\ visionSources' = visionSourcesAfter(visionSources, doc, controlled, env, deleted)
  /\ perception' = visionPerception(doc, controlled, env, defer, deleted)
  /\ call' = [fn |-> "updateVisionSource", defer |-> defer, deleted |-> deleted,
              before |-> visionSources]
  /\ last' = [NoOp EXCEPT !.op = "updateVisionSource"]
  /\ UNCHANGED <<status, source, doc, animationAttributes, position, validPosition,
                 priorMovement, adjustedCenter, _animation, animations, microtasks,
                 lightSources, controlled, env, hist>>

\* Whether the scene's rectangle contains p, given in half pixels.
inBounds(p) ==
  /\ 0 <= p.x /\ p.x <= 2 * (MaxCoord + SceneGridSize)
  /\ 0 <= p.y /\ p.y <= 2 * (MaxCoord + SceneGridSize)

\* Token._onDragLeftDrop without the test of collisions.
dragLeftDropUntested(dest, target, isGM, collides) == {dest}

\* Token._onDragLeftDrop: the updates it submits for a clone dropped at dest
\* whose centre there is target; collides is what checkCollision(target)
\* answers.
dragLeftDrop(dest, target, isGM, collides) ==
  IF ~isGM
  THEN (IF collides THEN {} ELSE {dest})
  ELSE (IF ~inBounds(target) THEN {} ELSE {dest})

\* Token._onDragLeftDrop for the clones of several tokens: the reduce over
\* event.data.clones.  dests[t] is where the clone of t was dropped and
\* collides[t] what checkCollision answers for it.
dragLeftDropAll(dests, collides, isGM, d) ==
  {[id |-> t, x |-> dests[t].x, y |-> dests[t].y] :
     t \in {c \in DOMAIN dests :
              dragLeftDrop(dests[c], getCenter(dests[c].x, dests[c].y, d),
                           isGM, collides[c]) # {}}}

\* SquareGrid.shiftPosition(x, y, dx, dy)
shiftPosition(x, y, dx, dy) ==
  [x |-> x + (dx * SceneGridSize), y |-> y + (dy * SceneGridSize)]

\* Token._getShiftedPosition(dx, dy) of a token displayed at p whose document
\* is d; collide is what checkCollision answers for the centre of the
\* shifted position.
getShiftedPosition(p, dx, dy, collide, d) ==
  IF collide THEN [x |-> d.x, y |-> d.y] ELSE shiftPosition(p.x, p.y, dx, dy)

CallDragLeftDropAll ==
  /\ IdlePure
  /\ \E dests \in [Tokens -> {[x |-> a, y |-> 0] : a \in Coords}], collides \in [Tokens -> BOOLEAN],
        isGM \in BOOLEAN :
       call' = [fn |-> "dragLeftDropAll", dests |-> dests, collides |-> collides,
                isGM |-> isGM,
                updates |-> dragLeftDropAll(dests, collides, isGM, DefaultDocument)]

CallGetShiftedPosition ==
  /\ IdlePure
  /\ \E px \in Coords, x \in Coords, dx \in {-1, 0, 1}, dy \in {-1, 0, 1},
        collide \in BOOLEAN :
       LET d == [DefaultDocument EXCEPT !.x = x]
           p == [x |-> px, y |-> d.y]
       IN  call' = [fn |-> "getShiftedPosition", position |-> p,
                    document |-> [x |-> d.x, y |-> d.y], dx |-> dx, dy |-> dy,
                    collide |-> collide,
                    result |-> getShiftedPosition(p, dx, dy, collide, d)]

\* The positions call holds as submitted by a drop so far.
authorized == IF "authorized" \in DOMAIN call THEN call.authorized ELSE {}

(***************************************************************************)
(* Token._onDragLeftDrop of one token dragged to dest, and the _onUpdate   *)
(* of the update it submits.                                               *)
(***************************************************************************)
OnDragLeftDrop(dest) ==
  /\ status = "active"
  /\ microtasks = <<>>
  /\ hist.updates < MaxUpdates
  /\ LET target == getCenter(dest.x, dest.y, doc)
         cc == checkCollision(target, NoPoint, "move", "any", validPosition,
                              priorMovement, doc, env)
     IN  \E collides \in {r = "true" : r \in (IF env.isGM THEN {"false"}
                                              ELSE testCollisionResults("any"))} :
           LET updates == dragLeftDrop(dest, target, env.isGM, collides)
           IN  /\ call' = [fn |-> "dragLeftDrop", dest |-> dest,
                           tested |-> ~env.isGM,
                           oracle |-> IF env.isGM THEN NoCall ELSE cc.oracle,
                           collides |-> collides, updates |-> updates,
                           before |-> validPosition, prior |-> priorMovement,
                           authorized |-> authorized \cup updates]
               /\ IF updates = {}
                  THEN /\ last' = [NoOp EXCEPT !.op = "dragLeftDrop"]
                       /\ perception' = <<>>
                       /\ UNCHANGED <<status, source, doc, animationAttributes,
                                      position, validPosition, priorMovement,
                                      adjustedCenter, _animation, animations,
                                      microtasks, lightSources, visionSources,
                                      controlled, env, hist>>
                  ELSE HandleUpdate(dest, TRUE, Undefined)

\* The _onUpdate of a position update that no drop submitted.
OnPositionUpdate(data, animateOpt) ==
  /\ HandleUpdate(data, animateOpt, Undefined)
  /\ call' = [fn |-> "update", authorized |-> authorized]

(***************************************************************************)
(* Token._onDragLeftMove of the token's preview clone dragged to x, with   *)
(* or without the tokenDragPreview setting; collides is the answer of      *)
(* checkCollision for a non-GM user.  The clone is not controlled.         *)
(***************************************************************************)
OnDragLeftMove(x, preview) ==
  /\ status = "active"
  /\ microtasks = <<>>
  /\ \E collides \in (IF preview /\ ~env.isGM THEN BOOLEAN ELSE {FALSE}) :
       LET c     == [doc EXCEPT !.x = x]
           e     == [env EXCEPT !.othersControlled =
                       @ \/ (controlled /\ ~doc.hidden /\ hasSight(doc))]
           moved == preview /\ ~collides
           id    == sourceId(TRUE)
       IN  /\ lightSources' =
                IF moved THEN sourcesAfter(id, lightSources, emitsLight(c, env), FALSE)
                ELSE lightSources
           /\ visionSources' =
                IF moved
                THEN sourcesAfter(id, visionSources, isVisionSource(c, FALSE, e), FALSE)
                ELSE visionSources
           /\ call' = [fn |-> "dragLeftMove", x |-> x, preview |-> preview,
                       collides |-> collides,
                       before |-> [light |-> lightSources, vision |-> visionSources]]
  /\ perception' = IF preview THEN <<{"refreshLighting", "refreshVision"}>> ELSE <<>>
  /\ last' = [NoOp EXCEPT !.op = "dragLeftMove"]
  /\ UNCHANGED <<status, source, doc, animationAttributes, position, validPosition,
                 priorMovement, adjustedCenter, _animation, animations, microtasks,
                 controlled, env, hist>>

(***************************************************************************)
(* Token._onDragLeftCancel: updateSource({deleted: true}) of the preview   *)
(* clone if there is one.                                                  *)
(***************************************************************************)
OnDragLeftCancel(hasPreview) ==
  /\ status = "active"
  /\ microtasks = <<>>
  /\ LET id == sourceId(TRUE)
     IN  /\ lightSources' =
              IF hasPreview THEN sourcesAfter(id, lightSources, FALSE, TRUE)
              ELSE lightSources
         /\ visionSources' =
              IF hasPreview THEN sourcesAfter(id, visionSources, FALSE, TRUE)
              ELSE visionSources
  /\ perception' =
       IF hasPreview
       THEN <<{"refreshLighting", "refreshVision"}, {"refreshVision", "refreshLighting"}>>
       ELSE <<>>
  /\ call' = [fn |-> "dragLeftCancel", hasPreview |-> hasPreview,
              before |-> [light |-> lightSources, vision |-> visionSources]]
  /\ last' = [NoOp EXCEPT !.op = "dragLeftCancel"]
  /\ UNCHANGED <<status, source, doc, animationAttributes, position, validPosition,
                 priorMovement, adjustedCenter, _animation, animations, microtasks,
                 controlled, env, hist>>

\* updateSource({defer: TRUE, deleted}) of another token, which emits light
\* or not and is a vision source or not.
OtherUpdateSource(emits, sees, deleted) ==
  /\ lightSources' = sourcesAfter(OtherId, lightSources, emits, deleted)
  /\ visionSources' = sourcesAfter(OtherId, visionSources, sees, deleted)
  /\ perception' = <<>>
  /\ last' = [NoOp EXCEPT !.op = "otherUpdateSource"]
  /\ UNCHANGED <<status, source, doc, animationAttributes, position, validPosition,
                 priorMovement, adjustedCenter, _animation, animations, microtasks,
                 controlled, env, hist, call>>

HalfPixels == 0..(2 * MaxCoord)

Offsets == {{}, {-1}, {0}, {1}}

\* The values #priorMovement can hold: ox and oy are never both 0.
MovementSigns ==
  {s \in [ox : {-1, 0, 1}, oy : {-1, 0, 1}] : s.ox # 0 \/ s.oy # 0}

\* getMovementAdjustedPoint applied to a point given in half pixels.
CallGetMovementAdjustedPoint ==
  /\ IdlePure
  /\ \E px, py \in HalfPixels, offsetX, offsetY \in Offsets,
        prior \in MovementSigns, hit \in BOOLEAN :
       LET point == [x |-> px, y |-> py]
           walls == IF hit THEN {<<roundFast(px), roundFast(py)>>} ELSE {}
       IN  call' = [fn |-> "getMovementAdjustedPoint", point |-> point,
                    offsetX |-> offsetX, offsetY |-> offsetY, prior |-> prior,
                    walls |-> walls,
                    result |-> getMovementAdjustedPoint(point, offsetX, offsetY,
                                                        prior, walls)]

\* getMovementAdjustedPoint applied to a point given in half pixels and then
\* to its own result, without override offsets, in a scene without walls,
\* with a wall through the rounded point, or with a wall through the rounded
\* point that runs along the movement.
CallGetMovementAdjustedPointTwice ==
  /\ IdlePure
  /\ \E px, py \in HalfPixels, prior \in MovementSigns,
        layout \in {"none", "through", "along"} :
       LET point == [x |-> px, y |-> py]
           x     == roundFast(px)
           y     == roundFast(py)
           walls == IF layout = "none" THEN {}
                    ELSE IF layout = "through" THEN {<<x, y>>}
                    ELSE {<<x, y>>, <<x - prior.ox, y - prior.oy>>}
           once  == getMovementAdjustedPoint(point, {}, {}, prior, walls)
           twice == getMovementAdjustedPoint([x |-> 2 * once.x, y |-> 2 * once.y],
                                             {}, {}, prior, walls)
       IN  call' = [fn |-> "getMovementAdjustedPointTwice", point |-> point,
                    prior |-> prior, walls |-> walls, once |-> once,
                    twice |-> twice]

InitPure == IdlePure /\ IdleTarget /\ IdleToken

NextPure ==
  \/ CallGetLightRadius /\ UNCHANGED <<targetVars, tokenVars>>
  \/ CallRotationAttribute /\ UNCHANGED <<targetVars, tokenVars>>
  \/ CallGetMovementAdjustedPoint /\ UNCHANGED <<targetVars, tokenVars>>
  \/ CallGetMovementAdjustedPointTwice /\ UNCHANGED <<targetVars, tokenVars>>

SpecPure == InitPure /\ [][NextPure]_vars

InitTarget == IdlePure /\ IdleTarget /\ IdleToken

NextTarget == SetTargetCall /\ UNCHANGED <<pureVars, tokenVars>>

SpecTarget == InitTarget /\ [][NextTarget]_vars

(***************************************************************************)
(* SpecLight: a token with a light and maybe sight is created, hidden and  *)
(* revealed, given another light or sight, and deleted.  The darkness      *)
(* level of the scene is in tenths.                                        *)
(***************************************************************************)
DarknessLevels == {0, 7}

LightDocuments ==
  {[DefaultDocument EXCEPT !.light = l, !.sight = s, !.hidden = h] :
     l \in LightConfigs, s \in {SightOff, SightOn}, h \in BOOLEAN}

LightEnvs ==
  {[DefaultEnv EXCEPT !.darkness = k, !.visionShim = v] :
     k \in DarknessLevels, v \in BOOLEAN}

LightPatches ==
  {[hidden |-> h] : h \in BOOLEAN}
    \cup {[light |-> l] : l \in LightConfigs}
    \cup {[sight |-> s] : s \in {SightOff, SightOn}}

InitLight ==
  /\ IdlePure
  /\ IdleTarget
  /\ \E d \in LightDocuments, e \in LightEnvs :
       \E signs \in facingSigns(d.rotation) : Construct(d, e, signs)

NextLight ==
  \/ OnCreate /\ UNCHANGED targetVars
  \/ (\E data \in LightPatches, a \in BOOLEAN : OnUpdate(data, a, Undefined))
       /\ UNCHANGED targetVars
  \/ (\E n \in Names : Tick(n)) /\ UNCHANGED targetVars
  \/ Continuation /\ UNCHANGED targetVars
  \/ OnDelete /\ UNCHANGED targetVars

SpecLight == InitLight /\ [][NextLight]_vars

(***************************************************************************)
(* SpecMove: a token is created and moved, with and without animation,     *)
(* also while an earlier movement is still animated.                       *)
(***************************************************************************)
Facings == {0, 225}

MovePatches ==
  {[x |-> a, y |-> a] : a \in Coords}
    \cup {[x |-> a] : a \in Coords}
    \cup {[y |-> b] : b \in Coords}

InitMove ==
  /\ IdlePure
  /\ IdleTarget
  /\ \E r \in Facings :
       \E signs \in facingSigns(r) :
         Construct([DefaultDocument EXCEPT !.rotation = r], DefaultEnv, signs)

NextMove ==
  \/ OnCreate /\ UNCHANGED targetVars
  \/ (\E data \in MovePatches, a \in BOOLEAN : OnUpdate(data, a, Undefined))
       /\ UNCHANGED targetVars
  \/ (\E n \in Names : Tick(n)) /\ UNCHANGED targetVars
  \/ Continuation /\ UNCHANGED targetVars

SpecMove == InitMove /\ [][NextMove]_vars

(***************************************************************************)
(* SpecCollide: a token is created, moved without animation, and asked for *)
(* collisions, in a scene without walls, with a wall through the centre of *)
(* the top-left square, or with a wall along the line y = 1 through that   *)
(* centre and the next point to its right.                                 *)
(***************************************************************************)
WallSets == {{}, {<<1, 1>>}, {<<1, 1>>, <<2, 1>>}}

InitCollide ==
  /\ IdlePure
  /\ IdleTarget
  /\ \E w \in WallSets :
       \E signs \in facingSigns(0) :
         Construct(DefaultDocument, [DefaultEnv EXCEPT !.walls = w], signs)

NextCollide ==
  \/ OnCreate /\ UNCHANGED targetVars
  \/ (\E a \in Coords : OnUpdate([x |-> a], FALSE, Undefined))
       /\ UNCHANGED targetVars
  \/ (\E destination \in Destinations, origin \in {NoPoint, [x |-> 2, y |-> 3]},
         type \in CollisionTypes, mode \in CollisionModes :
        CheckCollisionCall(destination, origin, type, mode))
       /\ UNCHANGED targetVars

SpecCollide == InitCollide /\ [][NextCollide]_vars

(***************************************************************************)
(* SpecAnim: a token is created, moved along x and hidden or revealed with *)
(* animation, also while an earlier animation is in flight, and animate()  *)
(* is called on it directly.                                               *)
(***************************************************************************)
AnimPatches ==
  {[x |-> a] : a \in Coords} \cup {[hidden |-> h] : h \in BOOLEAN}

InitAnim ==
  /\ IdlePure
  /\ IdleTarget
  /\ \E signs \in facingSigns(0) : Construct(DefaultDocument, DefaultEnv, signs)

NextAnim ==
  \/ OnCreate /\ UNCHANGED targetVars
  \/ (\E data \in AnimPatches, a \in BOOLEAN : OnUpdate(data, a, Undefined))
       /\ UNCHANGED targetVars
  \/ (\E data \in {EmptyData, [hidden |-> doc.hidden]} : AnimateCall(data))
       /\ UNCHANGED targetVars
  \/ (\E n \in Names : Tick(n)) /\ UNCHANGED targetVars
  \/ Continuation /\ UNCHANGED targetVars

SpecAnim == InitAnim /\ [][NextAnim]_vars

(***************************************************************************)
(* SpecNamed: a token is created and moved along x with animation, under   *)
(* the default animation name or under a name of the caller's.             *)
(***************************************************************************)
InitNamed ==
  /\ IdlePure
  /\ IdleTarget
  /\ \E signs \in facingSigns(0) : Construct(DefaultDocument, DefaultEnv, signs)

NextNamed ==
  \/ OnCreate /\ UNCHANGED targetVars
  \/ (\E a \in Coords, name \in {Undefined, CustomName} :
        OnUpdate([x |-> a], TRUE, name))
       /\ UNCHANGED targetVars
  \/ (\E n \in Names : Tick(n)) /\ UNCHANGED targetVars
  \/ Continuation /\ UNCHANGED targetVars

SpecNamed == InitNamed /\ [][NextNamed]_vars

(***************************************************************************)
(* SpecFrame: a token is created, moved along x, turned and tinted, with   *)
(* and without animation, also while an animation is in flight.            *)
(***************************************************************************)
Red == <<2, 0, 0>>

FramePatches ==
  {[x |-> a] : a \in {0, MaxCoord}}
    \cup {[rotation |-> r] : r \in {0, 270}}
    \cup {[tint |-> t] : t \in {White, Red}}

InitFrame ==
  /\ IdlePure
  /\ IdleTarget
  /\ \E signs \in facingSigns(0) : Construct(DefaultDocument, DefaultEnv, signs)

NextFrame ==
  \/ OnCreate /\ UNCHANGED targetVars
  \/ (\E data \in FramePatches, a \in BOOLEAN : OnUpdate(data, a, Undefined))
       /\ UNCHANGED targetVars
  \/ (\E n \in Names : Tick(n)) /\ UNCHANGED targetVars
  \/ Continuation /\ UNCHANGED targetVars

SpecFrame == InitFrame /\ [][NextFrame]_vars

(***************************************************************************)
(* SpecVision: a token with or without sight, hidden or not, is created    *)
(* for a GM or a player with or without observer permission who may        *)
(* control another token with sight; it is controlled and released, hidden *)
(* and revealed, and updateVisionSource is called on it.                   *)
(***************************************************************************)
VisionDocuments ==
  {[DefaultDocument EXCEPT !.sight = s, !.hidden = h] :
     s \in {SightOff, SightOn}, h \in BOOLEAN}

VisionEnvs ==
  {[DefaultEnv EXCEPT !.tokenVision = tv, !.isGM = g, !.canObserve = o,
                      !.isOwner = o, !.othersControlled = c] :
     tv \in BOOLEAN, g \in BOOLEAN, o \in BOOLEAN, c \in BOOLEAN}

InitVision ==
  /\ IdlePure
  /\ IdleTarget
  /\ \E d \in VisionDocuments, e \in VisionEnvs :
       \E signs \in facingSigns(d.rotation) : Construct(d, e, signs)

NextVision ==
  \/ OnCreate /\ UNCHANGED targetVars
  \/ (\E h \in BOOLEAN : OnUpdate([hidden |-> h], FALSE, Undefined))
       /\ UNCHANGED targetVars
  \/ Control /\ UNCHANGED targetVars
  \/ Release /\ UNCHANGED targetVars
  \/ (\E defer \in BOOLEAN, deleted \in BOOLEAN :
        UpdateVisionSourceCall(defer, deleted)) /\ UNCHANGED targetVars

SpecVision == InitVision /\ [][NextVision]_vars

(***************************************************************************)
(* SpecDrop: a token is created for a GM or a player; it is dragged and    *)
(* dropped, and the document's position is also updated by updates that no *)
(* drop submitted, with and without animation.                             *)
(***************************************************************************)
DropPoints == {[x |-> a, y |-> 0] : a \in Coords}

InitDrop ==
  /\ IdlePure
  /\ IdleTarget
  /\ \E g \in BOOLEAN, signs \in facingSigns(0) :
       Construct(DefaultDocument, [DefaultEnv EXCEPT !.isGM = g], signs)

NextDrop ==
  \/ OnCreate /\ UNCHANGED targetVars
  \/ (\E dest \in DropPoints : OnDragLeftDrop(dest)) /\ UNCHANGED targetVars
  \/ (\E a \in Coords, an \in BOOLEAN : OnPositionUpdate([x |-> a], an))
       /\ UNCHANGED targetVars
  \/ (\E n \in Names : Tick(n)) /\ UNCHANGED targetVars
  \/ Continuation /\ UNCHANGED targetVars

SpecDrop == InitDrop /\ [][NextDrop]_vars

(***************************************************************************)
(* SpecLightSource: a token with or without a light is created, hidden and *)
(* revealed, given another light, and updateLightSource is called on it.   *)
(***************************************************************************)
InitLightSource ==
  /\ IdlePure
  /\ IdleTarget
  /\ \E l \in LightConfigs, h \in BOOLEAN, k \in DarknessLevels :
       \E signs \in facingSigns(0) :
         Construct([DefaultDocument EXCEPT !.light = l, !.hidden = h],
                   [DefaultEnv EXCEPT !.darkness = k], signs)

NextLightSource ==
  \/ OnCreate /\ UNCHANGED targetVars
  \/ (\E data \in {[hidden |-> h] : h \in BOOLEAN}
                     \cup {[light |-> l] : l \in LightConfigs} :
        OnUpdate(data, FALSE, Undefined)) /\ UNCHANGED targetVars
  \/ (\E defer \in BOOLEAN, deleted \in BOOLEAN :
        UpdateLightSourceCall(defer, deleted)) /\ UNCHANGED targetVars

SpecLightSource == InitLightSource /\ [][NextLightSource]_vars

(***************************************************************************)
(* SpecDelete: a token that carries a torch is created, moved with an      *)
(* animation under the default name or a name of the caller, and deleted,  *)
(* also while an animation is in flight.                                   *)
(***************************************************************************)
InitDelete ==
  /\ IdlePure
  /\ IdleTarget
  /\ \E signs \in facingSigns(0) :
       Construct([DefaultDocument EXCEPT !.light = LightTorch], DefaultEnv, signs)

NextDelete ==
  \/ OnCreate /\ UNCHANGED targetVars
  \/ (\E a \in Coords, name \in {Undefined, CustomName} :
        OnUpdate([x |-> a], TRUE, name)) /\ UNCHANGED targetVars
  \/ (\E n \in Names : Tick(n)) /\ UNCHANGED targetVars
  \/ Continuation /\ UNCHANGED targetVars
  \/ OnDelete /\ UNCHANGED targetVars

SpecDelete == InitDelete /\ [][NextDelete]_vars

(***************************************************************************)
(* SpecShared: the token, with a torch and sight, shares the indices with  *)
(* another token and with its own preview clone: it is created, moved with *)
(* animation, deleted, its sources are updated directly (deferred), its    *)
(* preview is dragged and the drag cancelled, while the other token        *)
(* registers and removes its sources.                                      *)
(***************************************************************************)
InitShared ==
  /\ IdlePure
  /\ IdleTarget
  /\ \E signs \in facingSigns(0) :
       Construct([DefaultDocument EXCEPT !.light = LightTorch, !.sight = SightOn],
                 [DefaultEnv EXCEPT !.isGM = FALSE, !.isOwner = FALSE], signs)

NextShared ==
  \/ OnCreate /\ UNCHANGED targetVars
  \/ (\E active \in BOOLEAN : OtherUpdateSource(active, active, ~active))
       /\ UNCHANGED targetVars
  \/ OnUpdate([x |-> MaxCoord], TRUE, Undefined) /\ UNCHANGED targetVars
  \/ (\E n \in Names : Tick(n)) /\ UNCHANGED targetVars
  \/ Continuation /\ UNCHANGED targetVars
  \/ (\E deleted \in BOOLEAN : UpdateSourceCall(TRUE, deleted))
       /\ UNCHANGED targetVars
  \/ (\E deleted \in BOOLEAN : UpdateLightSourceCall(TRUE, deleted))
       /\ UNCHANGED targetVars
  \/ (\E deleted \in BOOLEAN : UpdateVisionSourceCall(TRUE, deleted))
       /\ UNCHANGED targetVars
  \/ (\E preview \in BOOLEAN : OnDragLeftMove(MaxCoord, preview))
       /\ UNCHANGED targetVars
  \/ (\E hasPreview \in BOOLEAN : OnDragLeftCancel(hasPreview))
       /\ UNCHANGED targetVars
  \/ OnDelete /\ UNCHANGED targetVars

SpecShared == InitShared /\ [][NextShared]_vars

(***************************************************************************)
(* SpecDefer: a token with or without a torch and with or without sight is *)
(* created for a player, controlled and released, and its sources are      *)
(* updated directly, deferred or not, deleted or not.                      *)
(***************************************************************************)
InitDefer ==
  /\ IdlePure
  /\ IdleTarget
  /\ \E l \in {LightNone, LightTorch}, s \in {SightOff, SightOn} :
       \E signs \in facingSigns(0) :
         Construct([DefaultDocument EXCEPT !.light = l, !.sight = s],
                   [DefaultEnv EXCEPT !.isGM = FALSE, !.isOwner = FALSE,
                                      !.canObserve = FALSE], signs)

NextDefer ==
  \/ OnCreate /\ UNCHANGED targetVars
  \/ Control /\ UNCHANGED targetVars
  \/ Release /\ UNCHANGED targetVars
  \/ (\E defer \in BOOLEAN, deleted \in BOOLEAN : UpdateSourceCall(defer, deleted))
       /\ UNCHANGED targetVars
  \/ (\E defer \in BOOLEAN, deleted \in BOOLEAN :
        UpdateLightSourceCall(defer, deleted)) /\ UNCHANGED targetVars
  \/ (\E defer \in BOOLEAN, deleted \in BOOLEAN :
        UpdateVisionSourceCall(defer, deleted)) /\ UNCHANGED targetVars

SpecDefer == InitDefer /\ [][NextDefer]_vars

(***************************************************************************)
(* SpecPerceive: a token with or without a torch and with or without sight *)
(* is created for a player who may observe it, with the vision animation   *)
(* preference on or off; it is controlled, released, moved along x and     *)
(* hidden or revealed with animation.                                      *)
(***************************************************************************)
PerceivePatches ==
  {[x |-> a] : a \in {0, MaxCoord}} \cup {[hidden |-> h] : h \in BOOLEAN}

InitPerceive ==
  /\ IdlePure
  /\ IdleTarget
  /\ \E l \in {LightNone, LightTorch}, s \in {SightOff, SightOn}, va \in BOOLEAN :
       \E signs \in facingSigns(0) :
         Construct([DefaultDocument EXCEPT !.light = l, !.sight = s],
                   [DefaultEnv EXCEPT !.isGM = FALSE, !.visionAnimation = va], signs)

NextPerceive ==
  \/ OnCreate /\ UNCHANGED targetVars
  \/ Control /\ UNCHANGED targetVars
  \/ Release /\ UNCHANGED targetVars
  \/ (\E data \in PerceivePatches : OnUpdate(data, TRUE, Undefined))
       /\ UNCHANGED targetVars
  \/ Tick(AnimationName) /\ UNCHANGED targetVars
  \/ Continuation /\ UNCHANGED targetVars

SpecPerceive == InitPerceive /\ [][NextPerceive]_vars

(***************************************************************************)
(* SpecTick: a token is created, moved along x, resized, hidden, turned    *)
(* and tinted, with and without animation, also while an animation is in   *)
(* flight.                                                                 *)
(***************************************************************************)
TickPatches ==
  {[x |-> MaxCoord], [width |-> 2], [hidden |-> TRUE], [rotation |-> 270],
   [tint |-> Red]}

InitTick ==
  /\ IdlePure
  /\ IdleTarget
  /\ \E signs \in facingSigns(0) : Construct(DefaultDocument, DefaultEnv, signs)

NextTick ==
  \/ OnCreate /\ UNCHANGED targetVars
  \/ (\E data \in TickPatches, a \in BOOLEAN : OnUpdate(data, a, Undefined))
       /\ UNCHANGED targetVars
  \/ Tick(AnimationName) /\ UNCHANGED targetVars
  \/ Continuation /\ UNCHANGED targetVars

SpecTick == InitTick /\ [][NextTick]_vars

(***************************************************************************)
(* SpecDraw: a token of any size, also one wider than the canvas, is       *)
(* created at a position inside or outside the canvas, and moved without   *)
(* animation.                                                              *)
(***************************************************************************)
DrawCoords == {-1, 0, 1, MaxCoord, MaxCoord + SceneGridSize + 1}

DrawWidths == {1, 2, MaxCoord + 2}

InitDraw ==
  /\ IdlePure
  /\ IdleTarget
  /\ \E x \in DrawCoords, y \in DrawCoords, w \in DrawWidths, h \in {1, 2} :
       \E signs \in facingSigns(0) :
         Construct([DefaultDocument EXCEPT !.x = x, !.y = y, !.width = w,
                                           !.height = h], DefaultEnv, signs)

NextDraw ==
  \/ OnCreate /\ UNCHANGED targetVars
  \/ (\E a \in Coords : OnUpdate([x |-> a], FALSE, Undefined)) /\ UNCHANGED targetVars

SpecDraw == InitDraw /\ [][NextDraw]_vars

(***************************************************************************)
(* SpecCenter: a token with a torch and sight is created for its owner,    *)
(* moved along x and resized, with and without animation, every update     *)
(* changing the value it carries; updateLightSource and                    *)
(* updateVisionSource are also called on it directly.                      *)
(***************************************************************************)
InitCenter ==
  /\ IdlePure
  /\ IdleTarget
  /\ \E signs \in facingSigns(0) :
       Construct([DefaultDocument EXCEPT !.light = LightTorch, !.sight = SightOn],
                 [DefaultEnv EXCEPT !.isGM = FALSE], signs)

NextCenter ==
  \/ OnCreate /\ UNCHANGED targetVars
  \/ (\E a \in Coords \ {doc.x}, b \in BOOLEAN : OnUpdate([x |-> a], b, Undefined))
       /\ UNCHANGED targetVars
  \/ (\E w \in {1, 2} \ {doc.width}, b \in BOOLEAN :
        OnUpdate([width |-> w], b, Undefined)) /\ UNCHANGED targetVars
  \/ Tick(AnimationName) /\ UNCHANGED targetVars
  \/ Continuation /\ UNCHANGED targetVars
  \/ UpdateLightSourceCall(FALSE, FALSE) /\ UNCHANGED targetVars
  \/ UpdateVisionSourceCall(FALSE, FALSE) /\ UNCHANGED targetVars

SpecCenter == InitCenter /\ [][NextCenter]_vars

(***************************************************************************)
(* SpecViewer: the tokens of a layer, each with or without sight, hidden   *)
(* or not, controlled or not, observable or not, have their vision sources *)
(* updated for a GM or a player.                                           *)
(***************************************************************************)
InitViewer == IdlePure /\ IdleTarget /\ IdleToken

NextViewer == CallUpdateVisionSources /\ UNCHANGED <<targetVars, tokenVars>>

SpecViewer == InitViewer /\ [][NextViewer]_vars

(***************************************************************************)
(* SpecCommit: several tokens are dragged and dropped together by a GM or  *)
(* a player, and a token is shifted by the keyboard, with every answer of  *)
(* the collision test.                                                     *)
(***************************************************************************)
InitCommit == IdlePure /\ IdleTarget /\ IdleToken

NextCommit ==
  \/ CallDragLeftDropAll /\ UNCHANGED <<targetVars, tokenVars>>
  \/ CallGetShiftedPosition /\ UNCHANGED <<targetVars, tokenVars>>

SpecCommit == InitCommit /\ [][NextCommit]_vars

(***************************************************************************)
(* SpecUntarget: the users target and release the tokens, and a token is   *)
(* deleted.                                                                *)
(***************************************************************************)
InitUntarget == IdlePure /\ IdleTarget /\ IdleToken

NextUntarget ==
  \/ (tcall.op # "delete" /\ SetTargetCall) /\ UNCHANGED <<pureVars, tokenVars>>
  \/ (\E self \in Tokens : OnDeleteTargeted(self)) /\ UNCHANGED <<pureVars, tokenVars>>

SpecUntarget == InitUntarget /\ [][NextUntarget]_vars

(***************************************************************************)
(* SpecHide: a token of any alpha, hidden or not, is created for a GM and  *)
(* is hidden and revealed in turn, each update animated to its completion  *)
(* before the next one arrives.  Alpha is in tenths.                       *)
(***************************************************************************)
HideAlphas == {0, 3, AlphaHidden, 7, AlphaFull}

InitHide ==
  /\ IdlePure
  /\ IdleTarget
  /\ \E al \in HideAlphas, h \in BOOLEAN, r \in Facings :
       \E signs \in facingSigns(r) :
         Construct([DefaultDocument EXCEPT !.alpha = al, !.hidden = h,
                                           !.rotation = r], DefaultEnv, signs)

NextHide ==
  \/ OnCreate /\ UNCHANGED targetVars
  \/ (/\ animations[AnimationName] = NoRun
      /\ OnUpdate([hidden |-> ~doc.hidden], TRUE, Undefined)) /\ UNCHANGED targetVars
  \/ Tick(AnimationName) /\ UNCHANGED targetVars
  \/ Continuation /\ UNCHANGED targetVars

SpecHide == InitHide /\ [][NextHide]_vars

(***************************************************************************)
(* C10: getLightRadius(0) = 0 for every token size, and for non-zero units *)
(* getLightRadius(-units) = -getLightRadius(units), with                   *)
(* |getLightRadius(units)| = (|units| / gridDistance) * gridSize + w / 2.  *)
(* The last equation is stated with both sides multiplied by               *)
(* 2 * gridDistance.                                                       *)
(***************************************************************************)
C10_LightRadiusOddSymmetric ==
  call.fn = "getLightRadius" =>
    /\ call.units = 0 => call.result = 0
    /\ call.units # 0 =>
         /\ call.negated = -call.result
         /\ Abs(call.result) * 2 * call.distance
              = (Abs(call.units) * call.size * 2) + (call.w * call.distance)
         /\ Sign(call.result) = Sign(call.units)

C10_Witness ==
  /\ call.fn = "getLightRadius"
  /\ call.units < 0
  /\ call.w = 2 * call.size
  /\ call.result < 0

(***************************************************************************)
(* C8 as claimed: for baseline and target rotations in [0,360) the         *)
(* animated rotation delta (to - from) lies in (-180,180] and to is the    *)
(* target modulo 360.                                                      *)
(***************************************************************************)
C8_DeltaInHalfOpenInterval ==
  (call.fn = "rotation" /\ call.result # NoAttr) =>
    LET d == call.result.to - call.result.from
    IN  /\ -180 < d /\ d <= 180
        /\ (call.result.to - call.a1) % 360 = 0

(***************************************************************************)
(* C8 as amended: the animated rotation delta lies in [-180,180] (a raw    *)
(* delta of exactly -180 is kept as it is), from is the baseline, to is    *)
(* the target modulo 360, and from 350 to 10 the delta is +20 (to = 370).  *)
(***************************************************************************)
C8_DeltaInClosedInterval ==
  (call.fn = "rotation" /\ call.result # NoAttr) =>
    LET d == call.result.to - call.result.from
    IN  /\ -180 <= d /\ d <= 180
        /\ call.result.from = call.a0
        /\ (call.result.to - call.a1) % 360 = 0
        /\ (call.a0 = 350 /\ call.a1 = 10) => (d = 20 /\ call.result.to = 370)

C8_Witness ==
  /\ call.fn = "rotation"
  /\ call.a0 = 350
  /\ call.a1 = 10
  /\ call.result # NoAttr
  /\ call.result.to = 370

(***************************************************************************)
(* C3: after any sequence of setTarget calls the targeting relation is     *)
(* symmetric: user U is in T.targeted iff T is in U.targets.               *)
(***************************************************************************)
C3_TargetingSymmetric ==
  \A u \in Users, t \in Tokens :
    (u \in targeted[t]) <=> (t \in Range(targets[u]))

C3_Witness ==
  /\ tcall.op = "setTarget"
  /\ tcall.targeted
  /\ tcall.releaseOthers
  /\ (tcall.before \ {tcall.token}) # {}
  /\ tcall.user \in targeted[tcall.token]

(***************************************************************************)
(* C9: after an acquire with releaseOthers true, the user targets exactly  *)
(* the token the call was made on: U.targets = {T}, U is in T.targeted and *)
(* U is in no other token's targeted set.                                  *)
(***************************************************************************)
C9_AcquireReleasingOthersLeavesOne ==
  (tcall.op = "setTarget" /\ tcall.targeted /\ tcall.releaseOthers) =>
    /\ targets[tcall.user] = <<tcall.token>>
    /\ \A t \in Tokens : (tcall.user \in targeted[t]) <=> (t = tcall.token)

C9_Witness ==
  /\ tcall.op = "setTarget"
  /\ tcall.targeted
  /\ tcall.releaseOthers
  /\ tcall.before # {}
  /\ tcall.token \notin tcall.before
  /\ targets[tcall.user] = <<tcall.token>>

(***************************************************************************)
(* C5 as claimed: getMovementAdjustedPoint returns the point unmodified    *)
(* when no wall passes exactly through it, and otherwise the point shifted *)
(* by exactly one unit on each axis, opposite to the override offset or,   *)
(* without one, to the persisted ox/oy.  The point is in half pixels, the  *)
(* result in pixels.                                                       *)
(***************************************************************************)
C5_ReturnsPointOrUnitShift ==
  call.fn = "getMovementAdjustedPoint" =>
    LET sx == IF call.offsetX = {} THEN call.prior.ox ELSE CHOOSE v \in call.offsetX : TRUE
        sy == IF call.offsetY = {} THEN call.prior.oy ELSE CHOOSE v \in call.offsetY : TRUE
    IN  IF call.walls = {}
        THEN 2 * call.result.x = call.point.x /\ 2 * call.result.y = call.point.y
        ELSE /\ Abs(sx) = 1 /\ 2 * call.result.x = call.point.x - (2 * sx)
             /\ Abs(sy) = 1 /\ 2 * call.result.y = call.point.y - (2 * sy)

(***************************************************************************)
(* C5 as amended: getMovementAdjustedPoint rounds both coordinates of the  *)
(* point to the nearest integer; it returns the rounded point when no wall *)
(* passes exactly through the rounded point, and otherwise the rounded     *)
(* point minus, on each axis, the override offset or, without one, the     *)
(* persisted ox/oy: one unit against a non-zero sign, nothing for a zero.  *)
(***************************************************************************)
C5_ReturnsRoundedPointOrSignShift ==
  call.fn = "getMovementAdjustedPoint" =>
    LET sx == IF call.offsetX = {} THEN call.prior.ox ELSE CHOOSE v \in call.offsetX : TRUE
        sy == IF call.offsetY = {} THEN call.prior.oy ELSE CHOOSE v \in call.offsetY : TRUE
        rx == IF call.point.x % 2 = 0 THEN call.point.x \div 2 ELSE (call.point.x \div 2) + 1
        ry == IF call.point.y % 2 = 0 THEN call.point.y \div 2 ELSE (call.point.y \div 2) + 1
    IN  IF call.walls = {}
        THEN call.result = [x |-> rx, y |-> ry]
        ELSE call.result = [x |-> rx - sx, y |-> ry - sy]

C5_Witness ==
  /\ call.fn = "getMovementAdjustedPoint"
  /\ call.walls # {}
  /\ call.offsetX = {} /\ call.prior.ox = -1
  /\ call.offsetY = {0}
  /\ call.point.x % 2 = 1
  /\ 2 * call.result.x = call.point.x + 3
  /\ 2 * call.result.y = call.point.y

(***************************************************************************)
(* C6: a checkCollision call with type "sound" throws: testCollision is    *)
(* not called, nothing is returned, and ValidPosition, the movement vector *)
(* and both source indices are as before the call.                         *)
(***************************************************************************)
C6_SoundThrowsWithoutEffect ==
  [][(last'.op = "checkCollision" /\ call'.fn = "checkCollision" /\ call'.type = "sound")
       => /\ call'.thrown
          /\ ~call'.returned
          /\ call'.oracle = NoCall
          /\ UNCHANGED <<validPosition, priorMovement, lightSources, visionSources>>]_vars

C6_Witness ==
  /\ last.op = "checkCollision"
  /\ call.fn = "checkCollision"
  /\ call.type = "sound"
  /\ call.thrown
  /\ call.origin = NoPoint
  /\ validPosition.x # 0

(***************************************************************************)
(* C7: an animate() call that finds no observable attribute different      *)
(* between its baseline and the document, for data without a hidden        *)
(* change, dispatches nothing and leaves the cached snapshot, _animation,  *)
(* the running animations and their pending continuations as they are,     *)
(* an animation in flight included; called on its own it also leaves the   *)
(* document and both source indices as they are (within _onUpdate the      *)
(* document and the indices change by the handler's other statements).     *)
(***************************************************************************)
C7_NoDiffAnimateIsNoOp ==
  [][/\ (last'.op = "animate" /\ last'.nodiff)
          => /\ ~last'.dispatched
             /\ UNCHANGED <<animationAttributes, doc, source, _animation, animations,
                            microtasks, lightSources, visionSources, position>>
     /\ (last'.op = "update" /\ hist'.updates = hist.updates + 1
           /\ last'.animate /\ last'.nodiff)
          => /\ ~last'.dispatched
             /\ UNCHANGED <<animationAttributes, _animation, animations, microtasks>>]_vars

C7_Witness ==
  /\ last.op = "animate"
  /\ last.nodiff
  /\ last.inFlight
  /\ animations[AnimationName] # NoRun
  /\ animations[AnimationName].step > 0
  /\ _animation = AnimationName

(***************************************************************************)
(* C4 as claimed: after every position update ox is the sign of the most   *)
(* recent non-zero x-delta between consecutive document positions and oy   *)
(* that of the most recent non-zero y-delta, the facing's sign before any. *)
(***************************************************************************)
C4_SignsOfDocumentDeltas == priorMovement = hist.docSign

(***************************************************************************)
(* C4 as amended: a position update measures its delta from the position   *)
(* the token is displayed at when updatePosition runs if the token holds   *)
(* an animation promise then (the position displayed before an animated    *)
(* update, the new position after an unanimated one), and from the         *)
(* previous ValidPosition otherwise, to the new document position; on each *)
(* axis the sign becomes that of a non-zero delta and stays for a zero one.*)
(***************************************************************************)
C4_SignsOfMeasuredDeltas ==
  [][(last'.op = "update" /\ hist'.updates = hist.updates + 1 /\ last'.moved)
       => LET ox0 == IF _animation' # Null THEN position'.x ELSE validPosition.x
              oy0 == IF _animation' # Null THEN position'.y ELSE validPosition.y
              dx  == source'.x - ox0
              dy  == source'.y - oy0
          IN  /\ priorMovement'.ox = IF dx > 0 THEN 1 ELSE IF dx < 0 THEN -1
                                     ELSE priorMovement.ox
              /\ priorMovement'.oy = IF dy > 0 THEN 1 ELSE IF dy < 0 THEN -1
                                     ELSE priorMovement.oy
              /\ validPosition'.x = source'.x
              /\ validPosition'.y = source'.y]_vars

C4_Witness ==
  /\ last.op = "update"
  /\ last.moved
  /\ last.inFlight
  /\ last.animate
  /\ priorMovement.ox # hist.docSign.ox
  /\ priorMovement.oy = hist.docSign.oy

(***************************************************************************)
(* C2: when the animate() call of an update finds an animation in flight   *)
(* under the default name, then, once no animation runs and no             *)
(* continuation is pending, the document's display attributes and the      *)
(* cached snapshot are what that call aimed at; and the animation found in *)
(* flight never completes.                                                 *)
(***************************************************************************)
C2_LaterAnimationWins ==
  /\ ~hist.staleTerminal
  /\ (hist.target # NoTarget /\ animations[AnimationName] = NoRun /\ microtasks = <<>>)
       => /\ getDisplayAttributes(doc) = hist.target
          /\ animationAttributes = hist.target

(***************************************************************************)
(* C1: once a handler has run, the token's sourceId is a key of the light  *)
(* index if and only if the token exists, is not hidden, has a non-zero    *)
(* dim or bright radius and the darkness level is within the light's band. *)
(***************************************************************************)
C1_LightIndexMatchesEmission ==
  (status # "new" /\ microtasks = <<>>)
    => ((Self \in lightSources) <=> (status = "active" /\ emitsLight(doc, env)))

(***************************************************************************)
(* C11: at most one animation started by Token.animate is in flight for    *)
(* the token at any time, whatever names the calls were given.             *)
(***************************************************************************)
C11_OneAnimationInFlight ==
  Cardinality({n \in Names : animations[n] # NoRun}) <= 1

(***************************************************************************)
(* C12: when an animation has completed, the final frame leaves every      *)
(* attribute it animated (x, y, width, height, alpha, rotation, texture    *)
(* scale, tint) at exactly the animation's target in the document, the     *)
(* cached snapshot agrees with the document, and the perception update of  *)
(* that frame forces the fog and follows updateSource on those values.     *)
(***************************************************************************)
C12_FinalFrameExact ==
  (last.op = "continuation" /\ last.completed /\ ~last.thrown) =>
    /\ \A k \in DOMAIN last.to : doc[k] = last.to[k]
    /\ animationAttributes = getDisplayAttributes(doc)
    /\ perception # <<>>
    /\ "forceUpdateFog" \in perception[Len(perception)]
    /\ adjustedCenter =
         getMovementAdjustedPoint(center(doc), {}, {}, priorMovement, env.walls)

(***************************************************************************)
(* C13: right after updateVisionSource({deleted: false}) the token's       *)
(* sourceId is in the vision index exactly when token vision is on and the *)
(* token has sight, the token is not hidden from a non-GM viewer, and the  *)
(* token is controlled or else the viewer is no GM, has observer           *)
(* permission and controls no non-hidden token with sight.                 *)
(***************************************************************************)
C13_VisionIndexFollowsPrecedence ==
  (last.op = "updateVisionSource" /\ call.fn = "updateVisionSource" /\ ~call.deleted)
    => ((Self \in visionSources) <=>
          /\ env.tokenVision /\ doc.sight.enabled
          /\ ~(doc.hidden /\ ~env.isGM)
          /\ \/ controlled
             \/ (~env.isGM /\ env.canObserve /\ ~env.othersControlled))

C13_Witness ==
  /\ last.op = "updateVisionSource" /\ call.fn = "updateVisionSource" /\ ~call.deleted
  /\ env.isGM /\ controlled /\ doc.hidden
  /\ Self \in visionSources
  /\ Self \notin call.before

C15_MovementSignsNeverBothZero ==
  /\ priorMovement.ox \in {-1, 0, 1}
  /\ priorMovement.oy \in {-1, 0, 1}
  /\ ~(priorMovement.ox = 0 /\ priorMovement.oy = 0)

C15_Witness ==
  /\ last.op = "update"
  /\ last.moved
  /\ source.x = 0 /\ source.y = 0
  /\ hist.updates = 1
  /\ validPosition.x = 0 /\ validPosition.y = 0
  /\ priorMovement.ox = 0
  /\ priorMovement.oy = 1

(***************************************************************************)
(* C16 as claimed: in a checkCollision call without an origin the oracle   *)
(* gets as origin the movement-adjusted centre of ValidPosition, and as    *)
(* destination the destination adjusted with, on each axis, the sign of    *)
(* (destination - that origin), the persisted ox/oy for a zero delta.      *)
(* The destination and the centre are in half pixels, the adjusted points  *)
(* in pixels.                                                              *)
(***************************************************************************)
C16_OffsetsFromOracleOrigin ==
  (last.op = "checkCollision" /\ call.fn = "checkCollision"
     /\ call.origin = NoPoint /\ ~call.thrown) =>
    LET c  == getCenter(validPosition.x, validPosition.y, doc)
        o  == getMovementAdjustedPoint(c, {}, {}, priorMovement, env.walls)
        dx == call.destination.x - (2 * o.x)
        dy == call.destination.y - (2 * o.y)
        sx == IF dx > 0 THEN 1 ELSE IF dx < 0 THEN -1 ELSE priorMovement.ox
        sy == IF dy > 0 THEN 1 ELSE IF dy < 0 THEN -1 ELSE priorMovement.oy
    IN  /\ call.oracle.origin = o
        /\ call.oracle.destination =
             getMovementAdjustedPoint(call.destination, {sx}, {sy},
                                      priorMovement, env.walls)

(***************************************************************************)
(* C16 as amended: in a checkCollision call without an origin the oracle   *)
(* gets as origin the movement-adjusted centre of ValidPosition, and as    *)
(* destination the destination adjusted with, on each axis, the sign of    *)
(* (destination - the centre of ValidPosition before its adjustment), the  *)
(* persisted ox/oy for a zero delta.                                       *)
(***************************************************************************)
C16_OffsetsFromUnadjustedCentre ==
  (last.op = "checkCollision" /\ call.fn = "checkCollision"
     /\ call.origin = NoPoint /\ ~call.thrown) =>
    LET c  == getCenter(validPosition.x, validPosition.y, doc)
        o  == getMovementAdjustedPoint(c, {}, {}, priorMovement, env.walls)
        dx == call.destination.x - c.x
        dy == call.destination.y - c.y
        sx == IF dx > 0 THEN 1 ELSE IF dx < 0 THEN -1 ELSE priorMovement.ox
        sy == IF dy > 0 THEN 1 ELSE IF dy < 0 THEN -1 ELSE priorMovement.oy
    IN  /\ call.oracle.origin = o
        /\ call.oracle.destination =
             getMovementAdjustedPoint(call.destination, {sx}, {sy},
                                      priorMovement, env.walls)

C16_Witness ==
  /\ last.op = "checkCollision" /\ call.fn = "checkCollision"
  /\ call.origin = NoPoint /\ ~call.thrown
  /\ validPosition.x = 0
  /\ priorMovement.ox = -1
  /\ env.walls = {<<1, 1>>, <<2, 1>>}
  /\ call.destination = [x |-> 4, y |-> 2]
  /\ call.oracle.origin = [x |-> 2, y |-> 0]
  /\ call.oracle.destination = [x |-> 1, y |-> 0]

(***************************************************************************)
(* C17 as claimed: getMovementAdjustedPoint applied to its own result,     *)
(* with the movement sign and the walls unchanged, returns that result.    *)
(***************************************************************************)
C17_AdjustIdempotent ==
  call.fn = "getMovementAdjustedPointTwice" => call.twice = call.once

(***************************************************************************)
(* C17 as amended: getMovementAdjustedPoint applied to its own result,     *)
(* with the movement sign and the walls unchanged, returns that result     *)
(* exactly when no wall passes through the result; when a wall does, as    *)
(* for a wall that runs along the movement, it returns the result shifted  *)
(* once more against ox/oy.                                                *)
(***************************************************************************)
C17_AdjustIdempotentOffWalls ==
  call.fn = "getMovementAdjustedPointTwice" =>
    IF <<call.once.x, call.once.y>> \in call.walls
    THEN call.twice = [x |-> call.once.x - call.prior.ox,
                       y |-> call.once.y - call.prior.oy]
    ELSE call.twice = call.once

C17_Witness ==
  /\ call.fn = "getMovementAdjustedPointTwice"
  /\ call.point = [x |-> 4, y |-> 2]
  /\ call.prior = [ox |-> 1, oy |-> 0]
  /\ call.walls = {<<2, 1>>, <<1, 1>>}
  /\ call.once = [x |-> 1, y |-> 1]
  /\ call.twice = [x |-> 0, y |-> 1]

(***************************************************************************)
(* C18: right after updateLightSource(options) the token's sourceId is in  *)
(* the light index exactly when the token emits light and options.deleted  *)
(* is false; a removal (options.deleted, or a token that emits no light)   *)
(* that finds the key absent leaves the index as it was, and so does a     *)
(* removal that follows a removal.                                         *)
(***************************************************************************)
C18_LightIndexAfterUpdateLightSource ==
  (last.op = "updateLightSource" /\ call.fn = "updateLightSource") =>
    LET emits   == /\ ~doc.hidden
                   /\ (doc.light.dim # 0 \/ doc.light.bright # 0)
                   /\ Min(doc.light.min, doc.light.max) <= env.darkness
                   /\ env.darkness <= Max(doc.light.min, doc.light.max)
        removal == call.deleted \/ ~emits
    IN  /\ (Self \in lightSources) <=> (emits /\ ~call.deleted)
        /\ (removal /\ Self \notin call.before) => lightSources = call.before
        /\ (removal /\ call.afterRemoval) => lightSources = call.before

C18_Witness ==
  /\ last.op = "updateLightSource" /\ call.fn = "updateLightSource"
  /\ call.deleted
  /\ call.afterRemoval
  /\ emitsLight(doc, env)
  /\ Self \notin lightSources

(***************************************************************************)
(* C19: once _onDelete has handled the deletion of the token, its sourceId *)
(* is in neither the light index nor the vision index, whatever the token  *)
(* was before (with or without sight, emitting light or not, hidden or     *)
(* not).                                                                   *)
(***************************************************************************)
C19_DeletedTokenInNoIndex ==
  last.op = "delete" => (Self \notin lightSources /\ Self \notin visionSources)

(***************************************************************************)
(* C20: _onDelete stops the token's animation before it releases the       *)
(* sources, so once the token is deleted no animation of it is registered  *)
(* under its animation name and no animation tick of it runs.              *)
(***************************************************************************)
C20_NoTickAfterDelete ==
  status = "deleted" =>
    /\ animations[AnimationName] = NoRun
    /\ last.op # "tick"

(***************************************************************************)
(* C21: with the indices shared by several tokens, a step of the token     *)
(* (updateSource, updateLightSource, updateVisionSource, an update, a      *)
(* tick, the deletion) adds or removes no key but the token's sourceId, a  *)
(* step of its preview clone (drag, cancelled drag) no key but the         *)
(* sourceId with the suffix ".preview", and a step of another token no key *)
(* but that token's.                                                       *)
(***************************************************************************)
C21_OnlyOwnKeyTouched ==
  [][LET id == IF last'.op \in {"dragLeftMove", "dragLeftCancel"} THEN PreviewId
               ELSE IF last'.op = "otherUpdateSource" THEN OtherId
               ELSE Self
     IN  /\ lightSources' \ {id} = lightSources \ {id}
         /\ visionSources' \ {id} = visionSources \ {id}]_vars

C21_Witness ==
  /\ last.op = "dragLeftCancel"
  /\ call.fn = "dragLeftCancel"
  /\ PreviewId \in call.before.light
  /\ PreviewId \in call.before.vision
  /\ lightSources = {Self, OtherId}
  /\ visionSources = {Self, OtherId}

C23_RefreshAlwaysBroadcastUnlessGrouped ==
  tcall.op = "setTarget" =>
    /\ tcall.token \in refreshed
    /\ tcall.groupSelection => broadcasts = <<>>
    /\ ~tcall.groupSelection =>
         /\ broadcasts # <<>>
         /\ broadcasts[Len(broadcasts)] = targets[tcall.user]

C23_Witness ==
  /\ tcall.op = "setTarget"
  /\ tcall.groupSelection
  /\ tcall.releaseOthers
  /\ tcall.targeted
  /\ Cardinality(tcall.before \ {tcall.token}) = 2
  /\ Cardinality(refreshed) = 3
  /\ broadcasts = <<>>
  /\ targets[tcall.user] = <<tcall.token>>

(***************************************************************************)
(* C24: the completion step of Token.animate (the forced final frame that  *)
(* merges the animation's frame into the document and requests a forced    *)
(* perception and fog update) is never executed for an animation that was  *)
(* superseded by a later one of the same name.                             *)
(***************************************************************************)
C24_SupersededNeverCompletes ==
  ~(/\ last.op = "continuation"
    /\ ~last.completed
    /\ perception # <<>>
    /\ "forceUpdateFog" \in perception[Len(perception)])

(***************************************************************************)
(* C25: when _onUpdate has handled an update and started its animation,    *)
(* and before that animation ticks, ValidPosition is the document's        *)
(* position, the token's key is in the light index exactly when the        *)
(* updated document emits light and in the vision index exactly when it is *)
(* a vision source, and a registered source is at the adjusted centre of   *)
(* the document's position.                                                *)
(***************************************************************************)
C25_ConsistentBeforeFirstTick ==
  (last.op = "update" /\ last.dispatched) =>
    /\ validPosition.x = doc.x /\ validPosition.y = doc.y
    /\ (Self \in lightSources) <=> emitsLight(doc, env)
    /\ (Self \in visionSources) <=> isVisionSource(doc, controlled, env)
    /\ (Self \in lightSources \/ Self \in visionSources) =>
         adjustedCenter =
           getMovementAdjustedPoint(center(doc), {}, {}, priorMovement, env.walls)

(***************************************************************************)
(* C26: a checkCollision call, whatever its destination, origin, type and  *)
(* mode and whether it returns or throws, leaves ValidPosition, the        *)
(* movement vector, the adjusted centre, the cached animation snapshot,    *)
(* the document and both source indices as they were.                      *)
(***************************************************************************)
C26_CheckCollisionReadOnly ==
  [][(last'.op = "checkCollision")
       => UNCHANGED <<validPosition, priorMovement, adjustedCenter,
                      animationAttributes, doc, source, lightSources,
                      visionSources>>]_vars

C26_Witness ==
  /\ last.op = "checkCollision" /\ call.fn = "checkCollision"
  /\ ~call.thrown
  /\ call.origin # NoPoint
  /\ call.type = "sight"
  /\ call.mode = "all"
  /\ validPosition.x = MaxCoord
  /\ env.walls # {}

(***************************************************************************)
(* C27: when the update passed to animate carries a hidden field, an alpha *)
(* animation is scheduled from the baseline alpha to                       *)
(* min(target alpha, 0.5) if the token is becoming hidden and to           *)
(* min(target alpha, 1) if it is becoming visible, also when the baseline  *)
(* and the target alpha are equal.                                         *)
(***************************************************************************)
C27_HiddenSchedulesAlpha ==
  (last.op = "animate" /\ call.fn = "animate" /\ "hidden" \in DOMAIN call.data)
    => /\ last.dispatched
       /\ animations[AnimationName] # NoRun
       /\ "alpha" \in DOMAIN animations[AnimationName].attrs
       /\ animations[AnimationName].attrs["alpha"].from = call.a0.alpha
       /\ animations[AnimationName].attrs["alpha"].to =
            (IF call.data.hidden THEN Min(call.a1.alpha, AlphaHidden)
                                 ELSE Min(call.a1.alpha, AlphaFull))

\* animate({hidden}) on a token whose baseline alpha is already the target.
C27_Witness ==
  /\ last.op = "animate" /\ call.fn = "animate" /\ "hidden" \in DOMAIN call.data
  /\ last.dispatched
  /\ animations[AnimationName] # NoRun
  /\ "alpha" \in DOMAIN animations[AnimationName].attrs
  /\ animations[AnimationName].attrs["alpha"].from =
       animations[AnimationName].attrs["alpha"].to

(***************************************************************************)
(* C28: a tick of an animation reinitializes the sources and requests a    *)
(* perception update if and only if the update touched x, y or rotation,   *)
(* the vision animation preference is on and the token was a vision source *)
(* or emitted light when animate was called; the request then carries      *)
(* forceUpdateFog exactly when, at that call, the token emitted light, was *)
(* not controlled and the index of vision sources was not empty.           *)
(***************************************************************************)
C28_TickPerceivesPerConfig ==
  (last.op = "tick" /\ ~last.thrown /\ hist.dispatch # NoCall)
    => LET h == hist.dispatch
           requested == perception # <<>>
       IN  /\ requested <=> (/\ {"x", "y", "rotation"} \cap h.keys # {}
                               /\ h.visionAnimation
                               /\ (h.visionSource \/ h.emits))
           /\ requested =>
                /\ {"refreshLighting", "refreshVision"} \subseteq perception[Len(perception)]
                /\ ("forceUpdateFog" \in perception[Len(perception)])
                     <=> (h.emits /\ ~h.controlled /\ h.sources)

\* C28 as stated: the preference and the keys alone decide the request, and
\* light without control alone decides forceUpdateFog.
C28_TickPerceivesPerPreference ==
  (last.op = "tick" /\ ~last.thrown /\ hist.dispatch # NoCall)
    => LET h == hist.dispatch
           requested == perception # <<>>
       IN  /\ requested <=> (/\ {"x", "y", "rotation"} \cap h.keys # {}
                               /\ h.visionAnimation)
           /\ requested =>
                (("forceUpdateFog" \in perception[Len(perception)])
                   <=> (h.emits /\ ~h.controlled))

\* A tick of a moving torch bearer that is a vision source and not controlled.
C28_Witness ==
  /\ last.op = "tick" /\ ~last.thrown /\ hist.dispatch # NoCall
  /\ "x" \in hist.dispatch.keys
  /\ hist.dispatch.emits /\ ~hist.dispatch.controlled /\ hist.dispatch.sources
  /\ perception # <<>>
  /\ "forceUpdateFog" \in perception[Len(perception)]

(***************************************************************************)
(* C29: a tick of an animation changes only the document keys that are     *)
(* animated and inserts no key, leaves the snapshot of the animation       *)
(* attributes equal to the display attributes of the merged document, and  *)
(* calls refresh with bars, effects, elevation and nameplate true only     *)
(* when width or height is in the frame and border true only when x, y,    *)
(* width or height is in the frame.                                        *)
(***************************************************************************)
C29_TickTouchesAnimatedKeysOnly ==
  [][(last'.op = "tick" /\ ~last'.thrown /\ animations[AnimationName] # NoRun)
       => LET attrs == animations[AnimationName].attrs
              keys  == {attrs[k].path : k \in DOMAIN attrs}
              size  == {"width", "height"} \cap keys # {}
              place == {"x", "y"} \cap keys # {}
          IN  /\ DOMAIN doc' = DOMAIN doc
              /\ \A k \in DOMAIN doc : doc'[k] # doc[k] => k \in keys
              /\ animationAttributes' = getDisplayAttributes(doc')
              /\ last'.refresh.bars = size
              /\ last'.refresh.effects = size
              /\ last'.refresh.elevation = size
              /\ last'.refresh.nameplate = size
              /\ last'.refresh.border = (size \/ place)]_vars

\* A tick of a move asked refresh() for the border alone, and the document
\* holds a change that was made without animation during the move.
C29_Witness ==
  /\ last.op = "tick" /\ ~last.thrown
  /\ last.refresh.border /\ ~last.refresh.bars
  /\ doc.x \notin {0, MaxCoord}
  /\ doc.width = 2
  /\ animationAttributes = getDisplayAttributes(doc)

C31_AdjustedCenterIsCurrent ==
  (status = "active" /\ last.op \in {"update", "updateLightSource", "updateVisionSource"})
    => adjustedCenter =
         getMovementAdjustedPoint(center(doc), {}, {}, priorMovement, env.walls)

C33_OneBroadcastPerAcquire ==
  (tcall.op = "setTarget" /\ tcall.targeted /\ tcall.releaseOthers
     /\ ~tcall.groupSelection)
    => broadcasts = <<targets[tcall.user]>>

(***************************************************************************)
(* C34: Token._animation is non-null exactly while an animation dispatched *)
(* by animate() for the token is in flight: it holds a promise as long as  *)
(* an animation of the token is registered, also when the continuation of  *)
(* an earlier, superseded animation has run, and it holds one only while   *)
(* an animation is registered or its continuation is still to run.         *)
(***************************************************************************)
C34_AnimationHeldWhileInFlight ==
  /\ animations[AnimationName] # NoRun => _animation # Null
  /\ _animation # Null => (animations[AnimationName] # NoRun \/ microtasks # <<>>)

(***************************************************************************)
(* C35: a non-GM user commits no colliding move by a drop or a keyboard    *)
(* shift: _onDragLeftDrop submits no update for a dragged token whose      *)
(* collision test reports a collision and submits the drop position of     *)
(* every other dragged token, and _getShiftedPosition returns the          *)
(* document's position when the shifted target collides.                   *)
(***************************************************************************)
C35_NoCollidingMoveCommitted ==
  /\ (call.fn = "dragLeftDropAll" /\ ~call.isGM)
       => \A t \in Tokens :
            /\ call.collides[t] => (\A u \in call.updates : u.id # t)
            /\ ~call.collides[t] =>
                 [id |-> t, x |-> call.dests[t].x, y |-> call.dests[t].y]
                   \in call.updates
  /\ (call.fn = "getShiftedPosition" /\ call.collide)
       => call.result = call.document

\* A drop of several tokens of which one collides and the others are
\* submitted.
C35_Witness ==
  /\ call.fn = "dragLeftDropAll" /\ ~call.isGM
  /\ \E t \in Tokens : call.collides[t]
  /\ Cardinality(call.updates) = NumTokens - 1

(***************************************************************************)
(* C36: setTarget(false) called on token T for user U with the default     *)
(* options (releaseOthers true, groupSelection false) removes the pair     *)
(* (T, U) and leaves U's targeting of every other token as it was.         *)
(***************************************************************************)
C36_ReleaseTouchesOnePair ==
  (tcall.op = "setTarget" /\ ~tcall.targeted /\ tcall.releaseOthers
     /\ ~tcall.groupSelection)
    => /\ tcall.user \notin targeted[tcall.token]
       /\ tcall.token \notin Range(targets[tcall.user])
       /\ \A t \in Tokens \ {tcall.token} :
            /\ (t \in Range(targets[tcall.user])) <=> (t \in tcall.before)
            /\ (tcall.user \in targeted[t]) <=> (t \in tcall.before)

(***************************************************************************)
(* C37: after _onDelete of a token, the token is in no user's targets and  *)
(* its own targeted set holds no user, whichever users were targeting it.  *)
(***************************************************************************)
C37_DeletedTokenUntargeted ==
  tcall.op = "delete"
    => /\ targeted[tcall.token] = {}
       /\ \A u \in Users : tcall.token \notin Range(targets[u])

(***************************************************************************)
(* C38: a call of updateLightSource or updateVisionSource with defer false *)
(* that changes the membership of its index, by adding the token's key or  *)
(* by removing a key that was present, requests a perception update in     *)
(* that call.                                                              *)
(***************************************************************************)
C38_MembershipChangeIsAnnounced ==
  /\ (last.op = "updateLightSource" /\ call.fn = "updateLightSource"
        /\ ~call.defer /\ lightSources # call.before)
       => perception # <<>>
  /\ (last.op = "updateVisionSource" /\ call.fn = "updateVisionSource"
        /\ ~call.defer /\ visionSources # call.before)
       => perception # <<>>

(***************************************************************************)
(* C39: hiding a token and then revealing it, each update animated to its  *)
(* completion, is a round trip for alpha: once the second animation has    *)
(* completed, the document's alpha and the alpha of the snapshot of the    *)
(* animation attributes are what they were before the token was hidden.    *)
(***************************************************************************)
C39_HideRevealRestoresAlpha ==
  (/\ last.op = "continuation" /\ last.completed
   /\ hist.updates = 2 /\ ~doc.hidden)
    => /\ doc.alpha = source.alpha
       /\ animationAttributes.alpha = source.alpha

\* A token of full alpha has been hidden, which took its alpha to .5, and
\* revealed again.
C39_Witness ==
  /\ last.op = "continuation" /\ last.completed
  /\ hist.updates = 2 /\ ~doc.hidden
  /\ source.alpha = AlphaFull
  /\ doc.alpha = AlphaFull
  /\ "alpha" \in DOMAIN last.to /\ last.to["alpha"] = AlphaFull

====
